---- MODULE Spec2Model ----
(***************************************************************************)
(* Model of the shared Renderer of model-viewer                            *)
(* (packages/model-viewer/src/three-components/Renderer.ts): the adaptive  *)
(* render-scale controller (frame timer, smoothed frame duration,          *)
(* scale-step selector), the canvas resizer and the per-frame draw loop.   *)
(*                                                                         *)
(* Numbers.  JavaScript numbers are modelled by exact arithmetic:          *)
(*  - avgFrameDuration is a real with a finite base-5 expansion            *)
(*    (DURATION_DECAY = 0.2 = 1/5 and every frame delta is an integer      *)
(*    number of milliseconds), kept as [i |-> floor, f |-> base-5 digits   *)
(*    of the fractional part, without trailing zeros];                     *)
(*  - scale factors are kept in hundredths (0.79 is 79);                   *)
(*  - the device pixel ratio is kept in halves (1.5 is 3);                 *)
(*  - a CSS length `${x}px` is kept as the reduced fraction <<n, d>> of x. *)
(***************************************************************************)
EXTENDS Integers, Sequences, FiniteSets, TLC

\* ------------------------------------------------------------------ bounds
\* Latest frame timestamp (ms) the host delivers while deltas are free.
MaxTime == 1705
\* Number of ticks delivered in a constant-delta stream.
StreamLen == 36
\* Base-5 digits avgFrameDuration may have after a tick with a free delta.
MaxDigits == 0
\* Frames the page has shown with no element connected when SpecSize begins.
WarmTicks == 11
\* Frames SpecSize follows after that.
SizeTicks == 4
\* performance.now() when the first Renderer is constructed.
StartTime == 5
\* Largest renderCount a scene is followed to.
MaxRenderCount == 2
\* Invocations of render() SpecTimer follows.
MaxCalls == 16
\* Invocations of render() SpecLife follows.
MaxLifeCalls == 3
\* Frames the page has shown with no element connected when SpecDraw begins.
DrawWarmTicks == 12
\* Invocations of render() SpecDraw follows after that.
MaxDrawCalls == 3
\* Frames the page has shown with no element connected when SpecOps begins.
OpsWarmTicks == 14
\* Wireframe materials setWireframe() creates in SpecOps.
MaxOpsWireframes == 1
\* Invocations of render() SpecCanvas follows.
MaxCanvasCalls == 3
\* Frames the page has shown with no element connected when SpecGap begins.
GapWarmTicks == 13
\* Ticks SpecGap follows after that.
MaxGapTicks == 8
MaxResets == 2
\* Wireframe materials setWireframe() creates in SpecWire, and its ticks.
MaxWireframes == 2
WireTicks == 2
\* Messages in a validator report.
MaxMessages == 3

\* ------------------------------------------------------- program constants
\* 1 / DURATION_DECAY
DURATION_DECAY_INV == 5
LOW_FRAME_DURATION_MS == 18
HIGH_FRAME_DURATION_MS == 26
MAX_AVG_CHANGE_MS == 2
\* in hundredths
SCALE_STEPS == <<100, 79, 62, 50, 40, 31, 25>>
DEFAULT_LAST_STEP == 3

\* (HIGH_FRAME_DURATION_MS + LOW_FRAME_DURATION_MS) / 2, an integer here
MidFrameDuration == (HIGH_FRAME_DURATION_MS + LOW_FRAME_DURATION_MS) \div 2

\* --------------------------------------------------- exact real arithmetic
Real(n) == [i |-> n, f |-> <<>>]

RECURSIVE StripZeros(_)
StripZeros(f) ==
  IF f = <<>> \/ f[Len(f)] # 0 THEN f
  ELSE StripZeros(SubSeq(f, 1, Len(f) - 1))

\* a > n and a < n for a real a and an integer n
RealGt(a, n) == a.i > n \/ (a.i = n /\ a.f # <<>>)
RealLt(a, n) == a.i < n

\* (B-1) * 0.f as [c |-> carry into the integer part, d |-> digits]
RECURSIVE MulFrac(_, _)
MulFrac(f, m) ==
  IF f = <<>> THEN [c |-> 0, d |-> <<>>]
  ELSE LET r == MulFrac(Tail(f), m)
           v == m * Head(f) + r.c
       IN [c |-> v \div DURATION_DECAY_INV,
           d |-> <<v % DURATION_DECAY_INV>> \o r.d]

\* a + DURATION_DECAY * (delta - a) = ((B-1) * a + delta) / B
Decay(a, delta) ==
  LET r == MulFrac(a.f, DURATION_DECAY_INV - 1)
      n == (DURATION_DECAY_INV - 1) * a.i + r.c + delta
  IN [i |-> n \div DURATION_DECAY_INV,
      f |-> StripZeros(<<n % DURATION_DECAY_INV>> \o r.d)]

\* mutant: the change is not clamped
SmoothedDurationNoClamp(avg, delta) == Decay(avg, delta)

\* mutant: the clamped change is subtracted (-= for +=)
SmoothedDurationAway(avg, delta) ==
  IF RealLt(avg, delta - DURATION_DECAY_INV * MAX_AVG_CHANGE_MS)
  THEN [avg EXCEPT !.i = @ - MAX_AVG_CHANGE_MS]
  ELSE IF RealGt(avg, delta + DURATION_DECAY_INV * MAX_AVG_CHANGE_MS)
  THEN [avg EXCEPT !.i = @ + MAX_AVG_CHANGE_MS]
  ELSE Decay(avg, delta)

\* mutant: the change is clamped to 3 ms
SmoothedDurationWide(avg, delta) ==
  IF RealLt(avg, delta - DURATION_DECAY_INV * (MAX_AVG_CHANGE_MS + 1))
  THEN [avg EXCEPT !.i = @ + MAX_AVG_CHANGE_MS + 1]
  ELSE IF RealGt(avg, delta + DURATION_DECAY_INV * (MAX_AVG_CHANGE_MS + 1))
  THEN [avg EXCEPT !.i = @ - (MAX_AVG_CHANGE_MS + 1)]
  ELSE Decay(avg, delta)

\* mutant: the sum is computed and dropped (+ for +=)
SmoothedDurationDropped(avg, delta) == avg

\* avg + clamp(DURATION_DECAY * (delta - avg), -MAX_AVG_CHANGE_MS,
\*             MAX_AVG_CHANGE_MS)
SmoothedDuration(avg, delta) ==
  IF RealLt(avg, delta - DURATION_DECAY_INV * MAX_AVG_CHANGE_MS)
  THEN [avg EXCEPT !.i = @ + MAX_AVG_CHANGE_MS]
  ELSE IF RealGt(avg, delta + DURATION_DECAY_INV * MAX_AVG_CHANGE_MS)
  THEN [avg EXCEPT !.i = @ - MAX_AVG_CHANGE_MS]
  ELSE Decay(avg, delta)

\* ---------------------------------------------------------- model universe
\* The ModelScene objects that exist on the page.
Scenes == {"a", "b"}
\* Logical sizes (CSS pixels, <<width, height>>) an element can have.
Sizes == {<<801, 300>>, <<400, 600>>}
\* Values of resolveDpr(), in halves: 1.5 and 2.
DprValues == {3, 4}
\* Values given to the minScale setter, in hundredths.
MinScales == {100, 79, 50}
\* Every value of the minScale setter in (0, 1], in hundredths.
AllMinScales == 1..100
\* Frame deltas (ms) of the host while they are unconstrained.
FreeDeltas == {0, 100}
\* Frame deltas (ms) of the constant streams: LOW-1, midpoint, HIGH+1, 30.
StreamDeltas == {LOW_FRAME_DURATION_MS - 1, MidFrameDuration,
                 HIGH_FRAME_DURATION_MS + 1, 30}
\* Frame deltas (ms) of SpecTimer: the first frame can carry a timestamp
\* older than the performance.now() of the constructor.
TimerDeltas == {-30, 30, 100}
\* Pitches (degrees) of the camera and of the limits in the editor.
Pitches == {0, 12, 33, 34, 99}
\* Scenes that can be drawn by an external renderer.
ExternalScenes == {"b"}
\* The meshes of a model, in the order scene.traverse() visits them.
MeshOrder == <<"body", "lens">>
Meshes == {MeshOrder[k] : k \in 1..Len(MeshOrder)}
\* The material objects of a loaded model, by mesh.  A material is
\* <<"gltf", k>>, or <<"wireframe", k>> for the k-th material setWireframe()
\* created.
LoadedMaterial == [m \in Meshes |-> IF m = "body" THEN <<"gltf", 1>>
                                    ELSE <<"gltf", 2>>]

\* stream is <<>> or <<the constant delta>>
NoStream == <<>>
NoParent == "none"
\* size of the WebGL drawing buffer before threeRenderer.setSize is called
Unsized == <<-1, -1>>
\* an unset CSS length
NoStyle == <<0, 0>>
\* call before render() is first called
NoCall == <<>>
\* gap and resetLog when they are not kept
NoGap == <<>>
\* gap counts ticks without a step change up to this number
GapCap == 3
NoResetLog == <<>>
\* report before the validator has run
NoReport == <<>>

\* ------------------------------------------------------------------- state
VARIABLES
  \* Renderer fields
  avgFrameDuration, scaleStep, lastStep, lastTick,
  width, height, dpr, multipleScenesVisible,
  scenes,        \* the Set<ModelScene>, in insertion order
  threeRenderer, \* [alive, size (halves), animationLoop]
  canvas3D,      \* [styleWidth, styleHeight, show, parent]
  \* ModelScene objects and their elements, by scene
  scene,
  \* environment
  envDpr,        \* what resolveDpr() returns now
  isPresenting,  \* arRenderer.isPresenting
  stream,        \* <<>>, or <<the delta of every remaining tick>>
  \* space-opera: the camera settings of the editor
  pitchLimitsDeg, \* [enabled, min, max] in the redux store, degrees
  cameraPitch,    \* pitch of the camera of the preview, degrees
  \* the scene-helper operations of the Renderer
  material,      \* child.material of every mesh, by scene
  undos,         \* the undo functions setWireframe() returned, not yet called
  wireframes,    \* MeshBasicMaterial objects setWireframe() has created
  inOrder,       \* every undo so far was the latest one left for its scene
  \* space-opera: the glTF validator
  report,        \* <<>>, or <<the report setReport() was given or returned>>
  \* history
  streamTicks,   \* ticks delivered since the stream began
  streamStart,   \* the controller when the stream began
  lastStepHeld,  \* lastStep has not changed since the first tick
  ticked,        \* render() has been called on this Renderer
  stepChanged,   \* the latest tick that passed the guard changed scaleStep
  record,        \* whether the two variables below are kept
  call,         \* <<>>, or <<the latest invocation of render()>>
  observed,      \* the frame deltas the controller has smoothed
  gap,           \* <<>>, or <<ticks since the last tick that changed the step>>
  resetLog       \* <<>>, or <<what the latest resetSingleton() did>>

prog == <<avgFrameDuration, scaleStep, lastStep, lastTick, width, height, dpr,
          multipleScenesVisible, scenes, threeRenderer, canvas3D, scene>>
env == <<envDpr, isPresenting, stream>>
editor == <<pitchLimitsDeg, cameraPitch>>
helper == <<material, undos, wireframes, inOrder>>
validator == <<report>>
hist == <<streamTicks, streamStart, lastStepHeld, ticked, stepChanged, record,
          call, observed, gap, resetLog>>
vars == <<prog, env, editor, helper, validator, hist>>

\* -------------------------------------------------------------- arithmetic
Min(a, b) == IF a <= b THEN a ELSE b

RECURSIVE Gcd(_, _)
Gcd(a, b) == IF b = 0 THEN a ELSE Gcd(b, a % b)

\* the CSS length `${w / SCALE_STEPS[step]}px`
Px(w, step) ==
  LET n == w * 100
      d == SCALE_STEPS[step + 1]
      g == Gcd(n, d)
  IN <<n \div g, d \div g>>

\* Math.round(w * dpr), dpr in halves
RoundDpr(w, d) == (w * d + 1) \div 2
\* mutant: the viewport is rounded down (Math.floor for Math.ceil)
CeilScaledFloor(w, step, d) == (w * SCALE_STEPS[step + 1] * d) \div 200

\* Math.ceil(w * scaleFactor * dpr)
CeilScaled(w, step, d) == (w * SCALE_STEPS[step + 1] * d + 199) \div 200

SeqToSet(q) == {q[k] : k \in 1..Len(q)}

RECURSIVE Without(_, _)
Without(q, x) ==
  IF q = <<>> THEN <<>>
  ELSE IF Head(q) = x THEN Without(Tail(q), x)
  ELSE <<Head(q)>> \o Without(Tail(q), x)

\* Set.add: a new member goes last, an old one keeps its place
SetAdd(q, x) == IF x \in SeqToSet(q) THEN q ELSE Append(q, x)

RECURSIVE SelectSeq2(_, _, _)
SelectSeq2(q, sc, visible) ==
  IF q = <<>> THEN <<>>
  ELSE IF sc[Head(q)].modelIsVisible = visible
       THEN <<Head(q)>> \o SelectSeq2(Tail(q), sc, visible)
       ELSE SelectSeq2(Tail(q), sc, visible)

\* ------------------------------------------------- the Renderer as a value
\* The program state as one record, threaded through the steps of a handler.
State ==
  [avgFrameDuration |-> avgFrameDuration, scaleStep |-> scaleStep,
   lastStep |-> lastStep, lastTick |-> lastTick, width |-> width,
   height |-> height, dpr |-> dpr,
   multipleScenesVisible |-> multipleScenesVisible, scenes |-> scenes,
   threeRenderer |-> threeRenderer, canvas3D |-> canvas3D, scene |-> scene]

Becomes(r) ==
  /\ avgFrameDuration' = r.avgFrameDuration
  /\ scaleStep' = r.scaleStep
  /\ lastStep' = r.lastStep
  /\ lastTick' = r.lastTick
  /\ width' = r.width
  /\ height' = r.height
  /\ dpr' = r.dpr
  /\ multipleScenesVisible' = r.multipleScenesVisible
  /\ scenes' = r.scenes
  /\ threeRenderer' = r.threeRenderer
  /\ canvas3D' = r.canvas3D
  /\ scene' = r.scene

canRender(r) == r.threeRenderer.alive
scaleFactor(r) == SCALE_STEPS[r.scaleStep + 1]

\* set minScale(scale): the index the while loop stops at, minus one
RECURSIVE MinScaleWalk(_, _)
MinScaleWalk(i, scale) ==
  IF i < Len(SCALE_STEPS) /\ ~(SCALE_STEPS[i + 1] < scale)
  THEN MinScaleWalk(i + 1, scale)
  ELSE i

\* mutant: the setter also brings scaleStep down to the new lastStep
minScaleClamps(r, scale) ==
  [r EXCEPT !.lastStep = MinScaleWalk(1, scale) - 1,
            !.scaleStep = Min(@, MinScaleWalk(1, scale) - 1)]

\* mutant: lastStep is the index the loop stops at (i for i - 1)
minScaleStopIndex(r, scale) == [r EXCEPT !.lastStep = MinScaleWalk(1, scale)]

minScale(r, scale) == [r EXCEPT !.lastStep = MinScaleWalk(1, scale) - 1]

\* ------------------------------------------------------------ construction
\* A ModelScene and its element before they meet a Renderer.
NewScene(size, external) ==
  [width |-> size[1], height |-> size[2], isDirty |-> FALSE,
   renderCount |-> 0, externalRenderer |-> external,
   modelIsVisible |-> FALSE, loaded |-> FALSE, context |-> FALSE,
   canvasWidth |-> Unsized[1], canvasHeight |-> Unsized[2],
   styleWidth |-> NoStyle, styleHeight |-> NoStyle, show |-> FALSE]

\* new Renderer(options) at time now with resolveDpr() = d.  The field
\* initializers run first (scaleStep = 0, lastStep = DEFAULT_LAST_STEP,
\* avgFrameDuration = midpoint, width = height = 0); the constructor body then
\* sets dpr, calls updateRendererSize() (which returns early: no scene, same
\* dpr), and ends with lastTick = performance.now(); avgFrameDuration = 0.
Constructor(now, d, webgl, sc) ==
  [avgFrameDuration |-> Real(0), scaleStep |-> 0,
   lastStep |-> DEFAULT_LAST_STEP, lastTick |-> now, width |-> 0,
   height |-> 0, dpr |-> d, multipleScenesVisible |-> FALSE, scenes |-> <<>>,
   threeRenderer |-> [alive |-> webgl, size |-> Unsized,
                      animationLoop |-> FALSE],
   canvas3D |-> [styleWidth |-> NoStyle, styleHeight |-> NoStyle,
                 show |-> FALSE, parent |-> NoParent],
   scene |-> sc]

\* ---------------------------------------------------------------- handlers
\* mutant: the renderer takes the size of the last registered scene
MaxWidthLast(r) ==
  IF r.scenes = <<>> THEN 0 ELSE r.scene[r.scenes[Len(r.scenes)]].width

MaxWidth(r) ==
  LET S == {r.scene[s].width : s \in SeqToSet(r.scenes)} \cup {0}
  IN CHOOSE x \in S : \A y \in S : y <= x

MaxHeight(r) ==
  LET S == {r.scene[s].height : s \in SeqToSet(r.scenes)} \cup {0}
  IN CHOOSE x \in S : \A y \in S : y <= x

\* updateRendererSize().  d is resolveDpr(); resized[s] is the size
\* element[$updateSize] gives scene s when the device pixel ratio changed.
updateRendererSize(r, d, resized) ==
  LET r1 == IF d # r.dpr
            THEN [r EXCEPT !.scene =
                    [s \in Scenes |->
                       IF s \in SeqToSet(r.scenes)
                       THEN [r.scene[s] EXCEPT !.width = resized[s][1],
                                               !.height = resized[s][2]]
                       ELSE r.scene[s]]]
            ELSE r
      w == MaxWidth(r1)
      h == MaxHeight(r1)
      widthCSS == Px(w, r1.scaleStep)
      heightCSS == Px(h, r1.scaleStep)
  IN IF w = r1.width /\ h = r1.height /\ d = r1.dpr THEN r1
     ELSE [r1 EXCEPT
             !.width = w, !.height = h, !.dpr = d,
             !.threeRenderer.size =
                IF canRender(r1) THEN <<w * d, h * d>> ELSE @,
             !.canvas3D.styleWidth = widthCSS,
             !.canvas3D.styleHeight = heightCSS,
             !.scene = [s \in Scenes |->
                          IF s \in SeqToSet(r1.scenes)
                          THEN [r1.scene[s] EXCEPT
                                  !.canvasWidth = RoundDpr(w, d),
                                  !.canvasHeight = RoundDpr(h, d),
                                  !.styleWidth = widthCSS,
                                  !.styleHeight = heightCSS,
                                  !.isDirty = TRUE]
                          ELSE r1.scene[s]]]

\* mutant: the step is not held at lastStep
SelectStepNoCeiling(avg, step, last) ==
  IF RealGt(avg, HIGH_FRAME_DURATION_MS) THEN step + 1
  ELSE IF RealLt(avg, LOW_FRAME_DURATION_MS) /\ step > 0 THEN step - 1
  ELSE step

\* mutant: the two thresholds are swapped
SelectStepSwapped(avg, step, last) ==
  IF RealGt(avg, LOW_FRAME_DURATION_MS) /\ step < last THEN step + 1
  ELSE IF RealLt(avg, HIGH_FRAME_DURATION_MS) /\ step > 0 THEN step - 1
  ELSE step

\* mutant: the high threshold is one millisecond late
SelectStepLateHigh(avg, step, last) ==
  IF RealGt(avg, HIGH_FRAME_DURATION_MS + 1) /\ step < last THEN step + 1
  ELSE IF RealLt(avg, LOW_FRAME_DURATION_MS) /\ step > 0 THEN step - 1
  ELSE step

\* mutant: the high threshold is inclusive (>= for >)
SelectStepInclusive(avg, step, last) ==
  IF ~RealLt(avg, HIGH_FRAME_DURATION_MS) /\ step < last THEN step + 1
  ELSE IF RealLt(avg, LOW_FRAME_DURATION_MS) /\ step > 0 THEN step - 1
  ELSE step

\* mutant: a short frame time raises the step (++ for --)
SelectStepLowUp(avg, step, last) ==
  IF RealGt(avg, HIGH_FRAME_DURATION_MS) /\ step < last THEN step + 1
  ELSE IF RealLt(avg, LOW_FRAME_DURATION_MS) /\ step > 0 /\ step < last
  THEN step + 1
  ELSE step

\* the if / else-if of updateRendererScale()
SelectStep(avg, step, last) ==
  IF RealGt(avg, HIGH_FRAME_DURATION_MS) /\ step < last THEN step + 1
  ELSE IF RealLt(avg, LOW_FRAME_DURATION_MS) /\ step > 0 THEN step - 1
  ELSE step

\* mutant: a step change leaves the average alone
ResetDurationKeep(avg, changed) == avg

\* what avgFrameDuration is after updateRendererScale()
ResetDuration(avg, changed) ==
  IF changed THEN Real(MidFrameDuration) ELSE avg

\* mutant: only the shared canvas is given the new CSS size
updateRendererScaleSharedOnly(r) ==
  LET step == SelectStep(r.avgFrameDuration, r.scaleStep, r.lastStep)
      w == Px(r.width, step)
      h == Px(r.height, step)
  IN IF step = r.scaleStep THEN r
     ELSE [r EXCEPT
             !.scaleStep = step,
             !.avgFrameDuration = ResetDuration(@, TRUE),
             !.canvas3D.styleWidth = w,
             !.canvas3D.styleHeight = h,
             !.scene = [s \in Scenes |->
                          IF s \in SeqToSet(r.scenes)
                          THEN [r.scene[s] EXCEPT !.isDirty = TRUE]
                          ELSE r.scene[s]]]

\* mutant: the scenes are not marked dirty when the step changes
updateRendererScaleClean(r) ==
  LET step == SelectStep(r.avgFrameDuration, r.scaleStep, r.lastStep)
      w == Px(r.width, step)
      h == Px(r.height, step)
  IN IF step = r.scaleStep THEN r
     ELSE [r EXCEPT
             !.scaleStep = step,
             !.avgFrameDuration = ResetDuration(@, TRUE),
             !.canvas3D.styleWidth = w,
             !.canvas3D.styleHeight = h,
             !.scene = [s \in Scenes |->
                          IF s \in SeqToSet(r.scenes)
                          THEN [r.scene[s] EXCEPT !.styleWidth = w,
                                                  !.styleHeight = h]
                          ELSE r.scene[s]]]

updateRendererScale(r) ==
  LET step == SelectStep(r.avgFrameDuration, r.scaleStep, r.lastStep)
      w == Px(r.width, step)
      h == Px(r.height, step)
  IN IF step = r.scaleStep THEN r
     ELSE [r EXCEPT
             !.scaleStep = step,
             !.avgFrameDuration = ResetDuration(@, TRUE),
             !.canvas3D.styleWidth = w,
             !.canvas3D.styleHeight = h,
             !.scene = [s \in Scenes |->
                          IF s \in SeqToSet(r.scenes)
                          THEN [r.scene[s] EXCEPT !.styleWidth = w,
                                                  !.styleHeight = h,
                                                  !.isDirty = TRUE]
                          ELSE r.scene[s]]]

\* mutant: the canvas of a new scene is styled with the scene's own size
registerSceneOwnSize(r, s) ==
  LET r1 == [r EXCEPT !.scenes = SetAdd(@, s)]
  IN [r1 EXCEPT
        !.scene[s].canvasWidth = RoundDpr(r.width, r.dpr),
        !.scene[s].canvasHeight = RoundDpr(r.height, r.dpr),
        !.scene[s].styleWidth = Px(r.scene[s].width, r.scaleStep),
        !.scene[s].styleHeight = Px(r.scene[s].height, r.scaleStep),
        !.scene[s].show = IF r.multipleScenesVisible THEN TRUE ELSE @,
        !.scene[s].isDirty = TRUE,
        !.threeRenderer.animationLoop =
           IF canRender(r) /\ Len(r1.scenes) > 0 THEN TRUE ELSE @]

registerScene(r, s) ==
  LET r1 == [r EXCEPT !.scenes = SetAdd(@, s)]
  IN [r1 EXCEPT
        !.scene[s].canvasWidth = RoundDpr(r.width, r.dpr),
        !.scene[s].canvasHeight = RoundDpr(r.height, r.dpr),
        !.scene[s].styleWidth = Px(r.width, r.scaleStep),
        !.scene[s].styleHeight = Px(r.height, r.scaleStep),
        !.scene[s].show = IF r.multipleScenesVisible THEN TRUE ELSE @,
        !.scene[s].isDirty = TRUE,
        !.threeRenderer.animationLoop =
           IF canRender(r) /\ Len(r1.scenes) > 0 THEN TRUE ELSE @]

\* mutant: the loop is cancelled whenever a scene is unregistered
unregisterSceneCancels(r, s) ==
  LET r1 == [r EXCEPT !.scenes = Without(@, s)]
  IN [r1 EXCEPT
        !.threeRenderer.animationLoop = IF canRender(r) THEN FALSE ELSE @]

unregisterScene(r, s) ==
  LET r1 == [r EXCEPT !.scenes = Without(@, s)]
  IN [r1 EXCEPT
        !.threeRenderer.animationLoop =
           IF canRender(r) /\ Len(r1.scenes) = 0 THEN FALSE ELSE @]

\* canvas3D.width and canvas3D.height: WebGLRenderer.setSize(w, h, false) sets
\* them to the floor of its arguments (pixel ratio 1)
Canvas3DWidth(r) == r.threeRenderer.size[1] \div 2
Canvas3DHeight(r) == r.threeRenderer.size[2] \div 2

displayCanvas(r, s) == IF r.multipleScenesVisible THEN s ELSE "canvas3D"

\* mutant: externally rendered scenes are counted too
VisibleScenesAll(r) ==
  SelectSeq(r.scenes, LAMBDA s : r.scene[s].modelIsVisible)

\* scenes that selectCanvas() counts, in registration order
VisibleScenes(r) ==
  SelectSeq(r.scenes, LAMBDA s : r.scene[s].modelIsVisible
                                 /\ ~r.scene[s].externalRenderer)

selectCanvas(r) ==
  LET vis == VisibleScenes(r)
      visibleCanvas == vis[Len(vis)]
      multi == Len(vis) > 1
  IN IF vis = <<>> THEN r
     ELSE IF multi = r.multipleScenesVisible
             /\ (multi \/ r.canvas3D.parent = visibleCanvas)
     THEN r
     ELSE [r EXCEPT
             !.multipleScenesVisible = multi,
             !.canvas3D.show = IF multi THEN FALSE ELSE TRUE,
             !.canvas3D.parent = IF multi THEN @ ELSE visibleCanvas,
             !.scene = [s \in Scenes |->
                          IF s \notin SeqToSet(r.scenes)
                             \/ r.scene[s].externalRenderer
                          THEN r.scene[s]
                          ELSE IF multi
                          THEN [r.scene[s] EXCEPT !.show = TRUE,
                                                  !.isDirty = TRUE]
                          ELSE IF s = visibleCanvas
                          THEN [r.scene[s] EXCEPT !.show = FALSE,
                                                  !.isDirty = TRUE]
                          ELSE r.scene[s]]]

\* mutant: the scenes in view come first ([true, false] for [false, true])
orderedScenesInViewFirst(r) ==
  SelectSeq2(r.scenes, r.scene, TRUE) \o SelectSeq2(r.scenes, r.scene, FALSE)

orderedScenes(r) ==
  SelectSeq2(r.scenes, r.scene, FALSE) \o SelectSeq2(r.scenes, r.scene, TRUE)

\* mutant: the scenes in view are not marked dirty
DrawSceneNoMark(r, log, s) ==
  LET sc == r.scene[s]
      marked == r.scene
      w == Min(CeilScaled(sc.width, r.scaleStep, r.dpr), Canvas3DWidth(r))
      h == Min(CeilScaled(sc.height, r.scaleStep, r.dpr), Canvas3DHeight(r))
  IN IF ~sc.modelIsVisible /\ sc.renderCount > 0 THEN [r |-> r, log |-> log]
     ELSE IF ~sc.isDirty THEN [r |-> r, log |-> log]
     ELSE IF sc.externalRenderer
     THEN [r |-> r,
           log |-> Append(log, [scene |-> s, external |-> TRUE,
                                width |-> 0, height |-> 0, copied |-> FALSE])]
     ELSE [r |-> [r EXCEPT
                    !.scene = [marked EXCEPT
                       ![s].context =
                          IF r.multipleScenesVisible THEN TRUE ELSE @,
                       ![s].isDirty = FALSE,
                       ![s].renderCount = IF sc.loaded THEN @ + 1 ELSE @]],
           log |-> Append(log, [scene |-> s, external |-> FALSE,
                                width |-> w, height |-> h,
                                copied |-> r.multipleScenesVisible])]

\* One iteration of the for loop of render() for scene s; log is what the
\* tick has drawn so far.  preRender() only calls out to the element and to
\* three.js.
DrawScene(r, log, s) ==
  LET sc == r.scene[s]
      marked == IF ~sc.modelIsVisible /\ ~r.multipleScenesVisible
                THEN [x \in Scenes |->
                        IF x \in SeqToSet(r.scenes)
                           /\ r.scene[x].modelIsVisible
                        THEN [r.scene[x] EXCEPT !.isDirty = TRUE]
                        ELSE r.scene[x]]
                ELSE r.scene
      w == Min(CeilScaled(sc.width, r.scaleStep, r.dpr), Canvas3DWidth(r))
      h == Min(CeilScaled(sc.height, r.scaleStep, r.dpr), Canvas3DHeight(r))
  IN IF ~sc.modelIsVisible /\ sc.renderCount > 0 THEN [r |-> r, log |-> log]
     ELSE IF ~sc.isDirty THEN [r |-> r, log |-> log]
     ELSE IF sc.externalRenderer
     THEN [r |-> r,
           log |-> Append(log, [scene |-> s, external |-> TRUE,
                                width |-> 0, height |-> 0, copied |-> FALSE])]
     ELSE [r |-> [r EXCEPT
                    !.scene = [marked EXCEPT
                       ![s].context =
                          IF r.multipleScenesVisible THEN TRUE ELSE @,
                       ![s].isDirty = FALSE,
                       ![s].renderCount = IF sc.loaded THEN @ + 1 ELSE @]],
           log |-> Append(log, [scene |-> s, external |-> FALSE,
                                width |-> w, height |-> h,
                                copied |-> r.multipleScenesVisible])]

RECURSIVE DrawLoop(_, _, _)
DrawLoop(r, log, order) ==
  IF order = <<>> THEN [r |-> r, log |-> log]
  ELSE LET one == DrawScene(r, log, Head(order))
       IN DrawLoop(one.r, one.log, Tail(order))

\* mutant: the delta is measured from time 0
FrameDeltaFromZero(r, t) == t

\* const delta = t - this.lastTick
FrameDelta(r, t) == t - r.lastTick

\* mutant: the average is smoothed before the guard is tested
RenderScaleSmoothFirst(r, t, presenting, d, resized) ==
  LET delta == FrameDelta(r, t)
      r1 == [r EXCEPT !.lastTick = t]
      r2 == [r1 EXCEPT !.avgFrameDuration = SmoothedDuration(@, delta)]
  IN IF ~canRender(r1) \/ presenting THEN r2
     ELSE updateRendererScale(updateRendererSize(selectCanvas(r2), d, resized))

\* render(t, frame) up to and including updateRendererScale()
RenderScale(r, t, presenting, d, resized) ==
  LET delta == FrameDelta(r, t)
      r1 == [r EXCEPT !.lastTick = t]
      r2 == [r1 EXCEPT !.avgFrameDuration = SmoothedDuration(@, delta)]
  IN IF ~canRender(r1) \/ presenting THEN r1
     ELSE updateRendererScale(updateRendererSize(selectCanvas(r2), d, resized))

\* render(t, frame): the new Renderer and what the tick drew
render(r, t, frame, presenting, d, resized) ==
  IF frame THEN [r |-> r, log |-> <<>>]
  ELSE IF ~canRender(r) \/ presenting
  THEN [r |-> RenderScale(r, t, presenting, d, resized), log |-> <<>>]
  ELSE LET r3 == RenderScale(r, t, presenting, d, resized)
       IN DrawLoop(r3, <<>>, orderedScenes(r3))

\* dispose(): the elements it returns are those of r.scenes
dispose(r) == [r EXCEPT !.threeRenderer.alive = FALSE]

\* ---------------------------------------------- the scene-helper operations
\* this.scenes.values().next().value: the scene registered first
FirstScene(r) == r.scenes[1]

\* forceRender(), and the last line of every other helper
forceRender(r) == [r EXCEPT !.scene[FirstScene(r)].isDirty = TRUE]

\* mutant: the old material is read after the wireframe material is set
WireframeFuncsLate(mat, wire) ==
  [k \in 1..Len(MeshOrder) |-> [mesh |-> MeshOrder[k], oldMaterial |-> wire]]

\* the closures setWireframe() pushes to funcs, one for each mesh
WireframeFuncs(mat, wire) ==
  [k \in 1..Len(MeshOrder) |->
     [mesh |-> MeshOrder[k], oldMaterial |-> mat[MeshOrder[k]]]]

\* setWireframe(): mat is the materials of every scene, wire the new
\* MeshBasicMaterial.  fn is the function it returns.
setWireframe(r, mat, wire) ==
  LET s == FirstScene(r)
  IN [r |-> [r EXCEPT !.scene[s].isDirty = TRUE],
      material |-> [mat EXCEPT ![s] = [m \in Meshes |-> wire]],
      fn |-> [scene |-> s, funcs |-> WireframeFuncs(mat[s], wire)]]

\* funcs.forEach(func => func())
RECURSIVE RunFuncs(_, _)
RunFuncs(mat, funcs) ==
  IF funcs = <<>> THEN mat
  ELSE RunFuncs([mat EXCEPT ![Head(funcs).mesh] = Head(funcs).oldMaterial],
                Tail(funcs))

\* a call of the function setWireframe() returned
undoWireframe(r, mat, fn) ==
  [r |-> [r EXCEPT !.scene[fn.scene].isDirty = TRUE],
   material |-> [mat EXCEPT ![fn.scene] = RunFuncs(@, fn.funcs)]]

\* ----------------------------------------------------------------- actions
\* what the history keeps of the controller
Snapshot ==
  [scaleStep |-> scaleStep, avgFrameDuration |-> avgFrameDuration,
   ticked |-> ticked, stepChanged |-> stepChanged]

HistSame == UNCHANGED <<streamTicks, streamStart, lastStepHeld, ticked,
                        stepChanged, record, call, observed, gap, resetLog>>

\* sizes element[$updateSize] can report inside updateRendererSize()
Resizes ==
  IF envDpr = dpr THEN {[s \in Scenes |-> <<scene[s].width, scene[s].height>>]}
  ELSE {f \in [Scenes -> Sizes] :
          \A s \in Scenes \ SeqToSet(scenes) :
             f[s] = <<scene[s].width, scene[s].height>>}

CallCount == IF call = NoCall THEN 0 ELSE call[1].n

\* What gap keeps: n, the ticks counted; since, the ticks since the latest
\* tick that changed scaleStep (GapCap when there are that many or more, or
\* none has changed it); between, the value of since when it did.
GapAfterTick(g, changed) ==
  [n |-> g.n + 1,
   since |-> IF changed THEN 0 ELSE Min(g.since + 1, GapCap),
   between |-> IF changed THEN g.since ELSE g.between]

DirtyScenes(r) == {s \in SeqToSet(r.scenes) : r.scene[s].isDirty}

\* What the history keeps of the invocation render(t, xr) on r: its
\* arguments, the delta it computed, whether it passed the guard, the dirty
\* scenes before and after the resizer ran, and what it drew.
CallRecord(r, t, xr, presenting, d, resized) ==
  LET passed == ~xr /\ canRender(r) /\ ~presenting
  IN [n |-> CallCount + 1, t |-> t, xr |-> xr, passed |-> passed,
      delta |-> IF xr THEN 0 ELSE FrameDelta(r, t),
      dirtyIn |-> IF passed THEN DirtyScenes(selectCanvas(r)) ELSE {},
      dirty |-> IF passed
                THEN DirtyScenes(RenderScale(r, t, presenting, d, resized))
                ELSE {},
      drawn |-> render(r, t, xr, presenting, d, resized).log]

\* render(t, frame), called by whoever holds the animation loop
RenderCall(t, xr) ==
  \E resized \in Resizes :
    LET out == render(State, t, xr, isPresenting, envDpr, resized)
        passed == ~xr /\ canRender(State) /\ ~isPresenting
    IN /\ Becomes(out.r)
       /\ stepChanged' = IF passed THEN out.r.scaleStep # scaleStep
                         ELSE stepChanged
       /\ ticked' = IF xr THEN ticked ELSE TRUE
       /\ record' = record
       /\ call' = IF record
                   THEN <<CallRecord(State, t, xr, isPresenting, envDpr,
                                      resized)>>
                   ELSE call
       /\ observed' = IF record /\ passed
                      THEN observed \cup {FrameDelta(State, t)}
                      ELSE observed
       /\ gap' = IF gap = NoGap \/ xr THEN gap
                  ELSE <<GapAfterTick(gap[1], out.r.scaleStep # scaleStep)>>
       /\ resetLog' = resetLog

\* The host calls render(t) with no XR frame.
Render(t) ==
  /\ t >= lastTick
  /\ IF stream = NoStream
     THEN t - lastTick \in FreeDeltas /\ t <= MaxTime
     ELSE t - lastTick = stream[1] /\ streamTicks < StreamLen
  /\ RenderCall(t, FALSE)
  /\ \A s \in Scenes : scene'[s].renderCount <= MaxRenderCount
  /\ stream = NoStream => Len(avgFrameDuration'.f) <= MaxDigits
  /\ streamTicks' = IF stream = NoStream THEN streamTicks ELSE streamTicks + 1
  /\ UNCHANGED <<env, editor, helper, validator, streamStart, lastStepHeld>>

\* The XR session calls render(t, frame): arRenderer.onWebXRFrame takes over.
RenderXRFrame(t) ==
  /\ isPresenting
  /\ stream = NoStream
  /\ RenderCall(t, TRUE)
  /\ UNCHANGED <<env, editor, helper, validator, streamTicks, streamStart,
                 lastStepHeld>>

\* renderer.minScale = scale
SetMinScale(scale) ==
  /\ stream = NoStream
  /\ Becomes(minScale(State, scale))
  /\ lastStepHeld' = (lastStepHeld /\ (~ticked \/ lastStep' = lastStep))
  /\ UNCHANGED <<env, editor, helper, validator, streamTicks, streamStart,
                 ticked, stepChanged, record, call, observed, gap, resetLog>>

\* connectedCallback of the element of s
RegisterScene(s) ==
  /\ Becomes(registerScene(State, s))
  /\ UNCHANGED <<env, editor, helper, validator>>
  /\ HistSame

\* disconnectedCallback of the element of s
UnregisterScene(s) ==
  /\ Becomes(unregisterScene(State, s))
  /\ UNCHANGED <<env, editor, helper, validator>>
  /\ HistSame

Dispose ==
  /\ threeRenderer.alive
  /\ Becomes(dispose(State))
  /\ UNCHANGED <<env, editor, helper, validator>>
  /\ HistSame

\* element.connectedCallback() and element.disconnectedCallback(): the element
\* registers its scene with, or removes it from, the Renderer that is the
\* singleton when the callback runs.
connectedCallback(singleton, s) == registerScene(singleton, s)

disconnectedCallback(singleton, s) == unregisterScene(singleton, s)

RECURSIVE RegisterAll(_, _)
RegisterAll(r, q) ==
  IF q = <<>> THEN r ELSE RegisterAll(connectedCallback(r, Head(q)), Tail(q))

RECURSIVE UnregisterAll(_, _)
UnregisterAll(r, q) ==
  IF q = <<>> THEN r
  ELSE UnregisterAll(disconnectedCallback(r, Head(q)), Tail(q))

ResetEvent(op, s, on) == [op |-> op, scene |-> s, on |-> on]

CallbackEvents(op, q, on) == [k \in 1..Len(q) |-> ResetEvent(op, q[k], on)]

resetSingletonInstallsFirst(r, now, d) ==
  LET elements == r.scenes
      old == dispose(r)
      made == Constructor(now, d, TRUE, old.scene)
      new == RegisterAll(UnregisterAll(made, elements), elements)
  IN [old |-> old, made |-> made, new |-> new,
      events |-> <<ResetEvent("dispose", "", "old"),
                   ResetEvent("new Renderer", "", "new")>>
                 \o CallbackEvents("disconnectedCallback", elements, "new")
                 \o CallbackEvents("connectedCallback", elements, "new")]

\* Renderer.resetSingleton(): dispose, disconnectedCallback of every element,
\* a new Renderer, connectedCallback of every element.  old is the Renderer
\* that was the singleton, made the new one as constructed, new the new one
\* when the call returns; events lists the calls in order, each with the
\* Renderer that is the singleton when it is made.
resetSingleton(r, now, d) ==
  LET elements == r.scenes
      old == UnregisterAll(dispose(r), elements)
      made == Constructor(now, d, TRUE, old.scene)
      new == RegisterAll(made, elements)
  IN [old |-> old, made |-> made, new |-> new,
      events |-> <<ResetEvent("dispose", "", "old")>>
                 \o CallbackEvents("disconnectedCallback", elements, "old")
                 \o <<ResetEvent("new Renderer", "", "new")>>
                 \o CallbackEvents("connectedCallback", elements, "new")]

\* What is kept of a call of resetSingleton.
ResetRecord(n, r, out) ==
  [n |-> n, events |-> out.events,
   wasScaleStep |-> r.scaleStep, wasLastStep |-> r.lastStep,
   oldScenes |-> out.old.scenes, oldAlive |-> out.old.threeRenderer.alive,
   madeScenes |-> out.made.scenes, madeScaleStep |-> out.made.scaleStep,
   madeLastStep |-> out.made.lastStep]

NoResetYet ==
  [n |-> 0, events |-> <<>>, wasScaleStep |-> 0,
   wasLastStep |-> DEFAULT_LAST_STEP, oldScenes |-> <<>>, oldAlive |-> TRUE,
   madeScenes |-> <<>>, madeScaleStep |-> 0, madeLastStep |-> DEFAULT_LAST_STEP]

\* The state is that of the singleton.
ResetSingleton ==
  /\ stream = NoStream
  /\ LET out == resetSingleton(State, lastTick, envDpr)
     IN /\ Becomes(out.new)
        /\ resetLog' = IF resetLog = NoResetLog THEN resetLog
                       ELSE <<ResetRecord(resetLog[1].n + 1, State, out)>>
  /\ lastStepHeld' = TRUE
  /\ ticked' = FALSE
  /\ stepChanged' = FALSE
  /\ observed' = {}
  /\ gap' = IF gap = NoGap THEN gap
             ELSE <<[gap[1] EXCEPT !.since = GapCap, !.between = GapCap]>>
  /\ UNCHANGED <<env, editor, helper, validator, streamTicks, streamStart,
                 record, call>>

\* ------------------------------------------- scene-helper operations, used
HelperStep ==
  /\ UNCHANGED <<env, editor, validator>>
  /\ HistSame

\* renderer.forceRender().  With no scene registered every helper throws a
\* TypeError before it has changed anything.
ForceRender ==
  /\ scenes # <<>>
  /\ Becomes(forceRender(State))
  /\ UNCHANGED helper
  /\ HelperStep

\* undo = renderer.setWireframe().  undos keeps, with the function, the
\* materials of the scene before the call.
SetWireframe ==
  /\ scenes # <<>>
  /\ LET out == setWireframe(State, material, <<"wireframe", wireframes + 1>>)
     IN /\ Becomes(out.r)
        /\ material' = out.material
        /\ undos' = Append(undos, [fn |-> out.fn,
                                   before |-> material[out.fn.scene]])
        /\ wireframes' = wireframes + 1
        /\ inOrder' = inOrder
  /\ HelperStep

\* undo(), for the k-th function that has not been called yet
CallUndo(k) ==
  /\ k \in 1..Len(undos)
  /\ LET out == undoWireframe(State, material, undos[k].fn)
     IN /\ Becomes(out.r)
        /\ material' = out.material
  /\ undos' = [j \in 1..(Len(undos) - 1) |->
                 IF j < k THEN undos[j] ELSE undos[j + 1]]
  /\ wireframes' = wireframes
  /\ inOrder' = (inOrder /\ \A j \in (k + 1)..Len(undos) :
                             undos[j].fn.scene # undos[k].fn.scene)
  /\ HelperStep

\* ------------------------------------------------------ environment steps
EnvStep(sc) ==
  /\ scene' = sc
  /\ UNCHANGED <<avgFrameDuration, scaleStep, lastStep, lastTick, width,
                 height, dpr, multipleScenesVisible, scenes, threeRenderer,
                 canvas3D, env, editor, helper, validator>>
  /\ HistSame

\* ModelScene.setSize, from the element's resize observer
SetSize(s, size) ==
  /\ s \in SeqToSet(scenes)
  /\ <<scene[s].width, scene[s].height>> # size
  /\ EnvStep([scene EXCEPT ![s].width = size[1], ![s].height = size[2]])

\* the element's intersection observer
SetVisible(s, b) ==
  /\ s \in SeqToSet(scenes)
  /\ scene[s].modelIsVisible # b
  /\ EnvStep([scene EXCEPT ![s].modelIsVisible = b])

\* the model of the element finished loading
SetLoaded(s) ==
  /\ s \in SeqToSet(scenes)
  /\ ~scene[s].loaded
  /\ EnvStep([scene EXCEPT ![s].loaded = TRUE])

\* the page replaces the disconnected element of s by a new one, drawn by
\* an external renderer or not
NewElement(s, external) ==
  /\ s \notin SeqToSet(scenes)
  /\ LET new == NewScene(<<scene[s].width, scene[s].height>>, external)
     IN scene[s] # new /\ EnvStep([scene EXCEPT ![s] = new])

\* the element asks for a redraw (scene.isDirty = true)
MarkDirty(s) ==
  /\ s \in SeqToSet(scenes)
  /\ ~scene[s].isDirty
  /\ EnvStep([scene EXCEPT ![s].isDirty = TRUE])

\* page zoom changes window.devicePixelRatio
SetDpr(d) ==
  /\ d # envDpr
  /\ envDpr' = d
  /\ UNCHANGED <<prog, isPresenting, stream, editor, helper, validator>>
  /\ HistSame

\* an AR session starts or ends
SetPresenting(b) ==
  /\ b # isPresenting
  /\ isPresenting' = b
  /\ UNCHANGED <<prog, envDpr, stream, editor, helper, validator>>
  /\ HistSame

\* From now on every frame takes d ms.
StartStream(d) ==
  /\ stream = NoStream
  /\ stream' = <<d>>
  /\ streamTicks' = 0
  /\ streamStart' = Snapshot
  /\ UNCHANGED <<prog, envDpr, isPresenting, editor, helper, validator,
                 lastStepHeld, ticked, stepChanged, record, call, observed,
                 gap, resetLog>>

\* ------------------------------------------------- space-opera: the editor
\* mutant: the set-max button stores the pitch as the minimum
onSetMaxAsMin(limits, pitch) == [limits EXCEPT !.min = pitch]

\* the handler of #set-max-button of the pitch limits editor
onSetMax(limits, pitch) == [limits EXCEPT !.max = pitch]

EditorStep ==
  /\ UNCHANGED <<prog, env, helper, validator>>
  /\ HistSame

\* reduxStore.dispatch(dispatchPitchLimits(limits))
DispatchPitchLimits(limits) ==
  /\ limits # pitchLimitsDeg
  /\ pitchLimitsDeg' = limits
  /\ cameraPitch' = cameraPitch
  /\ EditorStep

\* modelViewer.cameraOrbit = `auto ${pitch}deg auto`; jumpCameraToGoal()
SetCameraOrbit(pitch) ==
  /\ pitch # cameraPitch
  /\ cameraPitch' = pitch
  /\ pitchLimitsDeg' = pitchLimitsDeg
  /\ EditorStep

\* a click on #set-max-button
ClickSetMax ==
  /\ pitchLimitsDeg.enabled
  /\ pitchLimitsDeg' = onSetMax(pitchLimitsDeg, cameraPitch)
  /\ cameraPitch' = cameraPitch
  /\ EditorStep

\* ---------------------------------------------------------- specifications
Is(r) ==
  /\ avgFrameDuration = r.avgFrameDuration
  /\ scaleStep = r.scaleStep
  /\ lastStep = r.lastStep
  /\ lastTick = r.lastTick
  /\ width = r.width
  /\ height = r.height
  /\ dpr = r.dpr
  /\ multipleScenesVisible = r.multipleScenesVisible
  /\ scenes = r.scenes
  /\ threeRenderer = r.threeRenderer
  /\ canvas3D = r.canvas3D
  /\ scene = r.scene

InitialDpr == CHOOSE d \in DprValues : \A e \in DprValues : e <= d
InitialSize == CHOOSE z \in Sizes : \A y \in Sizes : y[1] <= z[1]

\* The page has loaded: the singleton was constructed at StartTime and no
\* element is connected yet.
InitHist ==
  /\ streamTicks = 0
  /\ lastStepHeld = TRUE
  /\ ticked = FALSE
  /\ stepChanged = FALSE
  /\ streamStart = Snapshot
  /\ call = NoCall
  /\ observed = {}
  /\ gap = NoGap
  /\ resetLog = NoResetLog

\* The editor after dispatchReset() and
\* dispatchPitchLimits({enabled: false, min: 0, max: 0}).
InitEditor ==
  /\ pitchLimitsDeg = [enabled |-> FALSE, min |-> 0, max |-> 0]
  /\ cameraPitch = 0

\* ----------------------------------------------- validation of a glTF file
\* Keys of CODES, in the order Object.keys lists them.
CODES == <<"ACCESSOR_NON_UNIT", "ACCESSOR_ANIMATION_INPUT_NON_INCREASING">>

\* CODES[code].message
CodeMessage(code) ==
  IF code = "ACCESSOR_NON_UNIT"
  THEN "{count} accessor elements not of unit length: 0. [AGGREGATED]"
  ELSE "{count} animation input accessor elements not in ascending order. [AGGREGATED]"

\* message.replace('{count}', count): the count and what follows it
ReplaceCount(text, count) == <<count, text>>

\* !CODES[message.code] is false
IsAggregated(code) == code \in SeqToSet(CODES)

\* Codes, pointers and severities of the issues the validator reports here.
IssueCodes == SeqToSet(CODES) \cup {"IO_ERROR"}
IssuePointers == {"/accessors/0", "/accessors/1"}
Severities == {0, 1}
SEVERITY_MAP == <<"Errors", "Warnings", "Infos", "Hints">>

\* The k-th message of a validator report; its text is told apart by k.
Issue(k, code, pointer, severity) ==
  [code |-> code, pointer |-> pointer, severity |-> severity,
   message |-> <<"issue", k>>]

\* messages.filter(msg => msg.severity === severity)
OfSeverity(messages, severity) ==
  SelectSeq(messages, LAMBDA msg : msg.severity = severity)

\* The report validateBytes resolves to: issues.messages and the counts.
ValidatorReport(messages) ==
  [issues |-> [messages |-> messages,
               num |-> [k \in 1..Len(SEVERITY_MAP) |->
                          Len(OfSeverity(messages, k - 1))]]]

\* pointerCounts of one code, keys in insertion order: position of a pointer
PointerIndex(counts, pointer) ==
  LET at == {k \in 1..Len(counts) : counts[k].pointer = pointer}
  IN IF at = {} THEN 0 ELSE CHOOSE k \in at : TRUE

\* CODES[code].pointerCounts[pointer], 0 for undefined
PointerCount(counts, pointer) ==
  IF PointerIndex(counts, pointer) = 0 THEN 0
  ELSE counts[PointerIndex(counts, pointer)].count

\* the first forEach of groupMessages, for the pointerCounts of one code
RECURSIVE CountPointers(_, _, _)
CountPointers(counts, code, errors) ==
  IF errors = <<>> THEN counts
  ELSE LET message == Head(errors)
           k == PointerIndex(counts, message.pointer)
           next == IF message.code # code THEN counts
                   ELSE IF k = 0
                        THEN Append(counts, [pointer |-> message.pointer,
                                             count |-> 1])
                        ELSE [counts EXCEPT ![k].count = @ + 1]
       IN CountPointers(next, code, Tail(errors))

\* the messages pushed for one code
AggregatedOf(code, counts) ==
  [k \in 1..Len(counts) |->
     [code |-> code, pointer |-> counts[k].pointer,
      message |-> ReplaceCount(CodeMessage(code), counts[k].count)]]

RECURSIVE AggregatedFrom(_, _)
AggregatedFrom(codes, pointerCounts) ==
  IF codes = <<>> THEN <<>>
  ELSE AggregatedOf(Head(codes), pointerCounts[Head(codes)])
         \o AggregatedFrom(Tail(codes), pointerCounts)

\* groupMessages(report)
groupMessages(rep) ==
  LET pointerCounts == [code \in SeqToSet(CODES) |->
                          CountPointers(<<>>, code, rep.errors)]
      kept == SelectSeq(rep.errors,
                LAMBDA message :
                  \/ ~IsAggregated(message.code)
                  \/ PointerCount(pointerCounts[message.code],
                                  message.pointer) = 0
                  \/ PointerCount(pointerCounts[message.code],
                                  message.pointer) < 2)
  IN [rep EXCEPT !.errors = kept \o AggregatedFrom(CODES, pointerCounts)]

\* issues.maxSeverity: the first severity with a message, -1 if there is none
MaxSeverity(num) ==
  LET with == {k \in 1..Len(num) : num[k] > 0}
  IN IF with = {} THEN -1
     ELSE (CHOOSE k \in with : \A j \in with : k <= j) - 1

\* setReport(report)
setReport(rep) ==
  groupMessages(
    [issues |-> [messages |-> rep.issues.messages, num |-> rep.issues.num,
                 maxSeverity |-> MaxSeverity(rep.issues.num)],
     errors |-> OfSeverity(rep.issues.messages, 0),
     warnings |-> OfSeverity(rep.issues.messages, 1),
     infos |-> OfSeverity(rep.issues.messages, 2),
     hints |-> OfSeverity(rep.issues.messages, 3)])

ValidatorStep ==
  /\ UNCHANGED <<prog, env, editor, helper>>
  /\ HistSame

\* validateBytes(...) resolves with the report of a file
ValidateBytes ==
  /\ report = NoReport
  /\ \E n \in 0..MaxMessages :
       \E code \in [1..n -> IssueCodes], pointer \in [1..n -> IssuePointers],
          severity \in [1..n -> Severities] :
         report' = ValidatorReport(
                     [k \in 1..n |->
                        Issue(k, code[k], pointer[k], severity[k])])
  /\ ValidatorStep

\* .then((report) => setReport(report))
SetReport ==
  /\ report # NoReport
  /\ "errors" \notin DOMAIN report
  /\ report' = setReport(report)
  /\ ValidatorStep

\* Every mesh has the material its glTF gave it; no helper has been used.
InitHelper ==
  /\ material = [s \in Scenes |-> LoadedMaterial]
  /\ undos = <<>>
  /\ wireframes = 0
  /\ inOrder = TRUE

\* No model has been validated.
InitValidator == report = NoReport

Init ==
  /\ envDpr = InitialDpr
  /\ isPresenting = FALSE
  /\ stream = NoStream
  /\ \E ext \in SUBSET ExternalScenes :
       Is(Constructor(StartTime, InitialDpr, TRUE,
                      [s \in Scenes |-> NewScene(InitialSize, s \in ext)]))
  /\ InitEditor
  /\ InitHelper
  /\ InitValidator
  /\ record = FALSE
  /\ InitHist

Tick == \E t \in lastTick..(lastTick + 100) : Render(t)

Next ==
  \/ Tick
  \/ \E t \in lastTick..(lastTick + 100) : RenderXRFrame(t)
  \/ \E scale \in MinScales : SetMinScale(scale)
  \/ \E s \in Scenes \ SeqToSet(scenes) : RegisterScene(s)
  \/ \E s \in SeqToSet(scenes) : UnregisterScene(s)
  \/ Dispose
  \/ ResetSingleton
  \/ \E s \in Scenes, size \in Sizes : SetSize(s, size)
  \/ \E s \in Scenes, b \in BOOLEAN : SetVisible(s, b)
  \/ \E s \in Scenes : SetLoaded(s)
  \/ \E s \in Scenes : MarkDirty(s)
  \/ \E d \in DprValues : SetDpr(d)
  \/ \E b \in BOOLEAN : SetPresenting(b)

Spec == Init /\ [][Next]_vars

\* The controller alone: no element is connected, the host calls render()
\* with free deltas and may then settle on a constant frame time.
InitCtl ==
  /\ Is(Constructor(StartTime, InitialDpr, TRUE,
                    [s \in Scenes |-> NewScene(InitialSize, FALSE)]))
  /\ envDpr = InitialDpr
  /\ isPresenting = FALSE
  /\ stream = NoStream
  /\ InitEditor
  /\ InitHelper
  /\ InitValidator
  /\ record = FALSE
  /\ InitHist

NextCtl ==
  \/ Tick
  \/ \E scale \in MinScales : SetMinScale(scale)
  \/ \E d \in StreamDeltas : StartStream(d)

SpecCtl == InitCtl /\ [][NextCtl]_vars

\* The resizer.  The page has shown WarmTicks slow frames with no element
\* connected; then elements connect, disconnect and resize, the page zooms,
\* and every frame is slow.  No element is scrolled into view.
SlowDelta == CHOOSE d \in FreeDeltas : \A e \in FreeDeltas : e <= d
SceneSizes == [s \in Scenes |-> InitialSize]

RECURSIVE Warm(_, _)
Warm(r, n) ==
  IF n = 0 THEN r
  ELSE Warm(render(r, r.lastTick + SlowDelta, FALSE, FALSE, r.dpr,
                   SceneSizes).r, n - 1)

InitSize ==
  /\ envDpr = InitialDpr
  /\ isPresenting = FALSE
  /\ stream = NoStream
  /\ Is(Warm(Constructor(StartTime, InitialDpr, TRUE,
                         [s \in Scenes |-> NewScene(InitialSize, FALSE)]),
             WarmTicks))
  /\ streamTicks = 0
  /\ lastStepHeld = TRUE
  /\ ticked = (WarmTicks > 0)
  /\ stepChanged = FALSE
  /\ streamStart = Snapshot
  /\ InitEditor
  /\ InitHelper
  /\ InitValidator
  /\ record = FALSE
  /\ call = NoCall
  /\ observed = {}
  /\ gap = NoGap
  /\ resetLog = NoResetLog

NextSize ==
  \/ /\ lastTick + SlowDelta <= StartTime + (WarmTicks + SizeTicks) * SlowDelta
     /\ Render(lastTick + SlowDelta)
  \/ \E s \in Scenes \ SeqToSet(scenes) : RegisterScene(s)
  \/ \E s \in SeqToSet(scenes) : UnregisterScene(s)
  \/ \E s \in Scenes, size \in Sizes : SetSize(s, size)
  \/ \E d \in DprValues : SetDpr(d)

SpecSize == InitSize /\ [][NextSize]_vars

\* The frame timer and the estimator, with the history of calls kept: no
\* element is connected, frames of any delta arrive (the first can be older
\* than the constructor's clock), an AR session starts and ends and its XR
\* frames arrive while it lasts.
InitTimer ==
  /\ Is(Constructor(StartTime, InitialDpr, TRUE,
                    [s \in Scenes |-> NewScene(InitialSize, FALSE)]))
  /\ envDpr = InitialDpr
  /\ isPresenting = FALSE
  /\ stream = NoStream
  /\ InitEditor
  /\ InitHelper
  /\ InitValidator
  /\ record = TRUE
  /\ InitHist

\* a frame d ms after the last one, while fewer than most have been followed
BoundedTick(d, most) ==
  /\ CallCount < most
  /\ RenderCall(lastTick + d, FALSE)
  /\ UNCHANGED <<env, editor, helper, validator, streamTicks, streamStart,
                 lastStepHeld>>

TimerTick(d) == BoundedTick(d, MaxCalls)

TimerXRFrame(d) ==
  /\ CallCount < MaxCalls
  /\ RenderXRFrame(lastTick + d)

NextTimer ==
  \/ \E d \in TimerDeltas : TimerTick(d)
  \/ \E d \in TimerDeltas : TimerXRFrame(d)
  \/ \E b \in BOOLEAN : SetPresenting(b)

SpecTimer == InitTimer /\ [][NextTimer]_vars

\* The minScale setter: the page sets any minimum scale between slow frames.
NextMin ==
  \/ Render(lastTick + SlowDelta)
  \/ \E scale \in AllMinScales : SetMinScale(scale)

SpecMin == InitCtl /\ [][NextMin]_vars

\* The pitch limits editor of space-opera, next to an idle Renderer.
Limits == [enabled : BOOLEAN, min : Pitches, max : Pitches]

NextPitch ==
  \/ \E limits \in Limits : DispatchPitchLimits(limits)
  \/ \E pitch \in Pitches : SetCameraOrbit(pitch)
  \/ ClickSetMax

SpecPitch == InitCtl /\ [][NextPitch]_vars

\* The life of a Renderer, with the history of calls kept: WebGL may be
\* missing from the start; elements connect and disconnect and ask for
\* redraws, the page zooms, an AR session starts and ends, the Renderer is
\* disposed of or replaced, and slow frames arrive throughout.
InitLife ==
  /\ envDpr = InitialDpr
  /\ isPresenting = FALSE
  /\ stream = NoStream
  /\ \E webgl \in BOOLEAN :
       Is(Constructor(StartTime, InitialDpr, webgl,
                      [s \in Scenes |-> NewScene(InitialSize, FALSE)]))
  /\ InitEditor
  /\ InitHelper
  /\ InitValidator
  /\ record = TRUE
  /\ InitHist

NextLife ==
  \/ BoundedTick(SlowDelta, MaxLifeCalls)
  \/ \E s \in Scenes : RegisterScene(s)
  \/ \E s \in Scenes : UnregisterScene(s)
  \/ \E s \in Scenes : MarkDirty(s)
  \/ \E d \in DprValues : SetDpr(d)
  \/ \E b \in BOOLEAN : SetPresenting(b)
  \/ Dispose
  \/ ResetSingleton

SpecLife == InitLife /\ [][NextLife]_vars

\* The resizer and the draw loop, with the history of calls kept.  The page
\* has shown DrawWarmTicks slow frames with no element connected; then
\* elements connect, resize and scroll in and out of view, the page zooms,
\* and every frame is slow.  No model has finished loading.
InitDraw ==
  /\ envDpr = InitialDpr
  /\ isPresenting = FALSE
  /\ stream = NoStream
  /\ Is(Warm(Constructor(StartTime, InitialDpr, TRUE,
                         [s \in Scenes |-> NewScene(InitialSize, FALSE)]),
             DrawWarmTicks))
  /\ InitEditor
  /\ InitHelper
  /\ InitValidator
  /\ record = TRUE
  /\ streamTicks = 0
  /\ lastStepHeld = TRUE
  /\ ticked = (DrawWarmTicks > 0)
  /\ stepChanged = FALSE
  /\ streamStart = Snapshot
  /\ call = NoCall
  /\ observed = {}
  /\ gap = NoGap
  /\ resetLog = NoResetLog

NextDraw ==
  \/ BoundedTick(SlowDelta, MaxDrawCalls)
  \/ \E s \in Scenes \ SeqToSet(scenes) : RegisterScene(s)
  \/ \E s \in Scenes, size \in Sizes : SetSize(s, size)
  \/ \E s \in Scenes, b \in BOOLEAN : SetVisible(s, b)
  \/ \E d \in DprValues : SetDpr(d)

SpecDraw == InitDraw /\ [][NextDraw]_vars

\* The operations of a Renderer that has lowered its scale.  The page has
\* shown OpsWarmTicks slow frames with no element connected; then elements
\* connect and disconnect, the page sets minScale and uses the scene helpers,
\* the Renderer is disposed of or replaced, and slow frames arrive.
WarmOps(n) ==
  Warm(Constructor(StartTime, InitialDpr, TRUE,
                   [s \in Scenes |-> NewScene(InitialSize, FALSE)]), n)

InitOps ==
  /\ envDpr = InitialDpr
  /\ isPresenting = FALSE
  /\ stream = NoStream
  /\ Is(WarmOps(OpsWarmTicks))
  /\ InitEditor
  /\ InitHelper
  /\ InitValidator
  /\ record = FALSE
  /\ streamTicks = 0
  /\ lastStepHeld = TRUE
  /\ ticked = (OpsWarmTicks > 0)
  /\ stepChanged = (OpsWarmTicks > 0
                    /\ WarmOps(OpsWarmTicks).scaleStep
                         # WarmOps(OpsWarmTicks - 1).scaleStep)
  /\ streamStart = Snapshot
  /\ call = NoCall
  /\ observed = {}
  /\ gap = NoGap
  /\ resetLog = NoResetLog

NextOps ==
  \/ Render(lastTick + SlowDelta)
  \/ \E s \in Scenes \ SeqToSet(scenes) : RegisterScene(s)
  \/ \E s \in SeqToSet(scenes) : UnregisterScene(s)
  \/ \E scale \in MinScales : SetMinScale(scale)
  \/ Dispose
  \/ ResetSingleton
  \/ ForceRender
  \/ wireframes < MaxOpsWireframes /\ SetWireframe
  \/ \E k \in 1..Len(undos) : CallUndo(k)

SpecOps == InitOps /\ [][NextOps]_vars

\* ------------------------------------------------- resetSingleton, recorded
InitReset ==
  /\ envDpr = InitialDpr
  /\ isPresenting = FALSE
  /\ stream = NoStream
  /\ Is(WarmOps(OpsWarmTicks))
  /\ InitEditor
  /\ InitHelper
  /\ InitValidator
  /\ record = FALSE
  /\ streamTicks = 0
  /\ lastStepHeld = TRUE
  /\ ticked = (OpsWarmTicks > 0)
  /\ stepChanged = (OpsWarmTicks > 0
                    /\ WarmOps(OpsWarmTicks).scaleStep
                         # WarmOps(OpsWarmTicks - 1).scaleStep)
  /\ streamStart = Snapshot
  /\ call = NoCall
  /\ observed = {}
  /\ gap = NoGap
  /\ resetLog = <<NoResetYet>>

NextReset ==
  \/ Render(lastTick + SlowDelta)
  \/ \E s \in Scenes \ SeqToSet(scenes) : RegisterScene(s)
  \/ \E s \in SeqToSet(scenes) : UnregisterScene(s)
  \/ \E scale \in MinScales : SetMinScale(scale)
  \/ Dispose
  \/ resetLog[1].n < MaxResets /\ ResetSingleton

SpecReset == InitReset /\ [][NextReset]_vars

\* ------------------------------------------------ setWireframe and its undo
InitWire ==
  /\ envDpr = InitialDpr
  /\ isPresenting = FALSE
  /\ stream = NoStream
  /\ Is(Constructor(StartTime, InitialDpr, TRUE,
                    [s \in Scenes |-> NewScene(InitialSize, FALSE)]))
  /\ InitEditor
  /\ InitHelper
  /\ InitValidator
  /\ record = FALSE
  /\ InitHist

NextWire ==
  \/ /\ lastTick + SlowDelta <= StartTime + WireTicks * SlowDelta
     /\ Render(lastTick + SlowDelta)
  \/ \E s \in Scenes \ SeqToSet(scenes) : RegisterScene(s)
  \/ \E s \in SeqToSet(scenes) : UnregisterScene(s)
  \/ ForceRender
  \/ wireframes < MaxWireframes /\ SetWireframe
  \/ \E k \in 1..Len(undos) : CallUndo(k)

SpecWire == InitWire /\ [][NextWire]_vars

\* ------------------------------------------------- the validation of a file
InitReport ==
  /\ envDpr = InitialDpr
  /\ isPresenting = FALSE
  /\ stream = NoStream
  /\ Is(Constructor(StartTime, InitialDpr, TRUE,
                    [s \in Scenes |-> NewScene(InitialSize, FALSE)]))
  /\ InitEditor
  /\ InitHelper
  /\ InitValidator
  /\ record = FALSE
  /\ InitHist

NextReport ==
  \/ ValidateBytes
  \/ SetReport

SpecReport == InitReport /\ [][NextReport]_vars

\* The canvases and the draw loop, with the history of calls kept: elements
\* connect and disconnect, scroll in and out of view, finish loading and ask
\* for redraws, a disconnected element is replaced by one that is drawn by an
\* external renderer or by one that is not, and slow frames arrive.
InitCanvas ==
  /\ Is(Constructor(StartTime, InitialDpr, TRUE,
                    [s \in Scenes |-> NewScene(InitialSize, FALSE)]))
  /\ envDpr = InitialDpr
  /\ isPresenting = FALSE
  /\ stream = NoStream
  /\ InitEditor
  /\ InitHelper
  /\ InitValidator
  /\ record = TRUE
  /\ InitHist

NextCanvas ==
  \/ BoundedTick(SlowDelta, MaxCanvasCalls)
  \/ \E s \in Scenes \ SeqToSet(scenes) : RegisterScene(s)
  \/ \E s \in SeqToSet(scenes) : UnregisterScene(s)
  \/ \E s \in Scenes, b \in BOOLEAN : SetVisible(s, b)
  \/ \E s \in Scenes : SetLoaded(s)
  \/ \E s \in Scenes : MarkDirty(s)
  \/ \E s \in ExternalScenes, external \in BOOLEAN : NewElement(s, external)

SpecCanvas == InitCanvas /\ [][NextCanvas]_vars

\* The spacing of step changes.  The page has shown GapWarmTicks slow frames
\* with no element connected; then frames of any delta arrive, also older
\* than the one before, the page sets minScale, and an AR session starts and
\* ends.  gap is kept.
GapDeltas == {-30, 0, 30, 100}

RECURSIVE WarmGap(_)
WarmGap(n) ==
  IF n = 0 THEN [n |-> 0, since |-> GapCap, between |-> GapCap]
  ELSE [GapAfterTick(WarmGap(n - 1),
                     WarmOps(n).scaleStep # WarmOps(n - 1).scaleStep)
          EXCEPT !.n = 0]

InitGap ==
  /\ envDpr = InitialDpr
  /\ isPresenting = FALSE
  /\ stream = NoStream
  /\ Is(WarmOps(GapWarmTicks))
  /\ InitEditor
  /\ InitHelper
  /\ InitValidator
  /\ record = FALSE
  /\ streamTicks = 0
  /\ lastStepHeld = TRUE
  /\ ticked = (GapWarmTicks > 0)
  /\ stepChanged = (WarmGap(GapWarmTicks).since = 0)
  /\ streamStart = Snapshot
  /\ call = NoCall
  /\ observed = {}
  /\ gap = <<WarmGap(GapWarmTicks)>>
  /\ resetLog = NoResetLog

GapTick(d) ==
  /\ gap[1].n < MaxGapTicks
  /\ RenderCall(lastTick + d, FALSE)
  /\ UNCHANGED <<env, editor, helper, validator, streamTicks, streamStart,
                 lastStepHeld>>

NextGap ==
  \/ \E d \in GapDeltas : GapTick(d)
  \/ \E scale \in MinScales : SetMinScale(scale)
  \/ \E b \in BOOLEAN : SetPresenting(b)

SpecGap == InitGap /\ [][NextGap]_vars

\* ------------------------------------------------------------------ claims
High1 == HIGH_FRAME_DURATION_MS + 1
Low1 == LOW_FRAME_DURATION_MS - 1

\* C1: with lastStep held fixed since the first tick, scaleStep stays within
\* [0, lastStep] after every tick, whatever the frame deltas are.
C1_StepWithinLastStep ==
  lastStepHeld => (0 <= scaleStep /\ scaleStep <= lastStep)

\* the controller is saturated: it would step again but for lastStep
C1_Witness ==
  /\ lastStepHeld /\ ticked
  /\ lastStep > 0 /\ scaleStep = lastStep
  /\ RealGt(avgFrameDuration, HIGH_FRAME_DURATION_MS)

\* C2 (as claimed): in every reachable state, also when minScale changes
\* between ticks, 0 <= scaleStep <= lastStep <= len(SCALE_STEPS) - 1.
C2_StepInvariant ==
  /\ 0 <= scaleStep
  /\ scaleStep <= lastStep
  /\ lastStep <= Len(SCALE_STEPS) - 1

\* C3: under a constant stream of midpoint deltas that begins in the initial
\* state or just after a step change, scaleStep never changes.
C3_StableAtMidpoint ==
  (stream = <<MidFrameDuration>>
   /\ (~streamStart.ticked \/ streamStart.stepChanged))
  => scaleStep = streamStart.scaleStep

C3_Witness ==
  /\ stream = <<MidFrameDuration>>
  /\ streamStart.stepChanged /\ streamStart.scaleStep > 0
  /\ streamTicks = StreamLen
  /\ scaleStep = streamStart.scaleStep

C6_ResetAfterStepChange ==
  [][ticked'
     => /\ scaleStep' # scaleStep
           => avgFrameDuration' = Real(MidFrameDuration)
        /\ stepChanged => scaleStep' = scaleStep]_vars

C6_Witness ==
  /\ stepChanged /\ scaleStep > 0
  /\ avgFrameDuration = Real(MidFrameDuration)

\* the stream of 30 ms deltas of C7: it begins at avg = midpoint, step 0
C7_Scenario ==
  /\ stream = <<30>>
  /\ streamStart.avgFrameDuration = Real(MidFrameDuration)
  /\ streamStart.scaleStep = 0
  /\ lastStep >= 1

\* C7 (as claimed): from avg = 22 and scaleStep = 0 with lastStep >= 1, 30 ms
\* deltas bring scaleStep to 1 within two evaluations.
C7_WithinTwo == (C7_Scenario /\ streamTicks >= 2) => scaleStep >= 1

\* C7 (amended): from avg = 22 and scaleStep = 0 with lastStep >= 1, 30 ms
\* deltas bring scaleStep to 1 within four evaluations.
C7_WithinFour == (C7_Scenario /\ streamTicks >= 4) => scaleStep >= 1

C7_Witness == C7_Scenario /\ streamTicks = 4 /\ scaleStep = 1

\* C10 (as claimed): right after construction avgFrameDuration is the
\* midpoint of the two thresholds.
C10_StartsAtMidpoint ==
  ~ticked => avgFrameDuration = Real(MidFrameDuration)

\* x is the largest member of S, or 0 when S is empty
IsLargest(x, S) ==
  IF S = {} THEN x = 0 ELSE x \in S /\ \A y \in S : y <= x

RegisteredWidths == {scene[s].width : s \in SeqToSet(scenes)}
RegisteredHeights == {scene[s].height : s \in SeqToSet(scenes)}

\* a render tick that passes the guard of render()
TickPassed == Render(lastTick') /\ threeRenderer.alive /\ ~isPresenting

\* C8 (as claimed): after a size update the renderer's width and height are
\* the maxima over the registered scenes (0 when none) and the drawing buffer
\* is that size times the device pixel ratio.
C8_MaxSizeTimesDpr ==
  [][TickPassed
     => /\ IsLargest(width', RegisteredWidths')
        /\ IsLargest(height', RegisteredHeights')
        /\ threeRenderer'.size = <<width' * dpr', height' * dpr'>>]_vars

\* C8 (amended): after a size update the renderer's width and height are the
\* maxima over the registered scenes (0 when none); the drawing buffer is that
\* size times the device pixel ratio, except that it is still unsized while
\* no size update has found a width, height or ratio to change.
C8_MaxSizeTimesDprOnceSized ==
  [][TickPassed
     => /\ IsLargest(width', RegisteredWidths')
        /\ IsLargest(height', RegisteredHeights')
        /\ \/ threeRenderer'.size = <<width' * dpr', height' * dpr'>>
           \/ /\ threeRenderer.size = Unsized /\ threeRenderer'.size = Unsized
              /\ width = 0 /\ height = 0 /\ width' = 0 /\ height' = 0
              /\ dpr' = dpr]_vars

\* two scenes of different sizes are registered
TwoSizes ==
  /\ Len(scenes) >= 2
  /\ \E s, u \in SeqToSet(scenes) :
       /\ scene[s].width > scene[u].width
       /\ scene[s].height < scene[u].height

C8_Witness ==
  /\ TwoSizes
  /\ \E s, u \in SeqToSet(scenes) :
       /\ width = scene[s].width /\ width > scene[u].width
       /\ height = scene[u].height /\ height > scene[s].height
  /\ threeRenderer.size = <<width * dpr, height * dpr>>

\* C9 (as claimed): with several scenes of different sizes and scaleStep = 0,
\* after a size update the CSS size of each scene's canvas is that scene's own
\* logical size.
C9_OwnSizeCSS ==
  [][(TickPassed /\ TwoSizes' /\ scaleStep' = 0)
     => \A s \in SeqToSet(scenes') :
          /\ scene'[s].styleWidth = <<scene'[s].width, 1>>
          /\ scene'[s].styleHeight = <<scene'[s].height, 1>>]_vars

\* C9 (amended): with several scenes of different sizes and scaleStep = 0,
\* after a size update the CSS size of each scene's canvas is the renderer's
\* logical size, the maximum width and height over the registered scenes.
C9_RendererSizeCSS ==
  [][(TickPassed /\ TwoSizes' /\ scaleStep' = 0)
     => /\ IsLargest(width', RegisteredWidths')
        /\ IsLargest(height', RegisteredHeights')
        /\ \A s \in SeqToSet(scenes') :
             /\ scene'[s].styleWidth = <<width', 1>>
             /\ scene'[s].styleHeight = <<height', 1>>]_vars

C9_Witness ==
  /\ TwoSizes /\ scaleStep = 0
  /\ IsLargest(width, RegisteredWidths)
  /\ IsLargest(height, RegisteredHeights)
  /\ \A s \in SeqToSet(scenes) :
       /\ ~scene[s].isDirty
       /\ scene[s].styleWidth = <<width, 1>>
       /\ scene[s].styleHeight = <<height, 1>>
       /\ <<scene[s].width, scene[s].height>> # <<width, height>>

\* ---- the estimator
\* the deltas the controller has smoothed, with the given other values
Between(a, S) ==
  /\ \E lo \in S : ~RealLt(a, lo)
  /\ \E hi \in S : ~RealGt(a, hi)

\* C11 (as claimed): in every reachable state avgFrameDuration lies between
\* the smallest and the largest frame delta the controller has observed.
C11_WithinObserved == observed # {} => Between(avgFrameDuration, observed)

\* C11 (amended): in every reachable state avgFrameDuration lies between the
\* smallest and the largest of the frame deltas observed so far, the 0 it is
\* given at construction and the midpoint it is reset to on a step change.
C11_WithinObservedAndResets ==
  Between(avgFrameDuration, observed \cup {0, MidFrameDuration})

\* the average has been above every delta but the reset value, and below
C11_Witness ==
  /\ observed # {}
  /\ \A d \in observed : RealLt(avgFrameDuration, d)
  /\ RealGt(avgFrameDuration, 0)
  /\ scaleStep > 0

\* ---- the minScale setter
\* the factors at indices 1..k are all >= scale
WalkReaches(k, scale) == \A j \in 1..k : SCALE_STEPS[j + 1] >= scale

\* C12: setting minScale = s, for any s in (0, 1], makes lastStep the last
\* index reached by walking SCALE_STEPS from index 1 upward while the factor
\* is >= s (0 when SCALE_STEPS[1] < s); so 0 <= lastStep <= 6 and
\* SCALE_STEPS[lastStep] >= s when lastStep >= 1; 0.5 gives 3, 0.25 gives 6
\* and 1 gives 0.
C12_LastStepFromMinScale ==
  [][\A scale \in AllMinScales :
       SetMinScale(scale)
       => /\ lastStep' \in 0..(Len(SCALE_STEPS) - 1)
          /\ WalkReaches(lastStep', scale)
          /\ lastStep' < Len(SCALE_STEPS) - 1
             => ~WalkReaches(lastStep' + 1, scale)
          /\ lastStep' >= 1 => SCALE_STEPS[lastStep' + 1] >= scale
          /\ scale = 50 => lastStep' = 3
          /\ scale = 25 => lastStep' = 6
          /\ scale = 100 => lastStep' = 0]_vars

\* the setter has allowed the smallest factor of the table
C12_Witness == ticked /\ lastStep = Len(SCALE_STEPS) - 1

\* ---- the pitch limits editor
\* C13: with pitch limits enabled in the store, a click on the set-max
\* button stores the camera's pitch as pitchLimitsDeg.max, replacing the
\* previous max and leaving enabled and min as they were (pitch 33 with
\* limits {0, 99} gives max 33).
C13_SetMaxStoresPitch ==
  [][ClickSetMax
     => /\ pitchLimitsDeg'.max = cameraPitch
        /\ pitchLimitsDeg'.enabled = pitchLimitsDeg.enabled
        /\ pitchLimitsDeg'.min = pitchLimitsDeg.min
        /\ (cameraPitch = 33 /\ pitchLimitsDeg.min = 0
            /\ pitchLimitsDeg.max = 99) => pitchLimitsDeg'.max = 33]_vars

\* the outcome of the test: limits {0, 99} have become {0, 33}
C13_Witness ==
  /\ cameraPitch = 33
  /\ pitchLimitsDeg = [enabled |-> TRUE, min |-> 0, max |-> 33]

\* ---- the estimator, tick by tick
RECURSIVE Pow(_)
Pow(k) == IF k = 0 THEN 1 ELSE DURATION_DECAY_INV * Pow(k - 1)

RECURSIVE FracUnits(_, _)
FracUnits(f, k) ==
  IF f = <<>> THEN 0 ELSE Head(f) * Pow(k - 1) + FracUnits(Tail(f), k - 1)

\* the real a as a whole number of units of DURATION_DECAY^k ms,
\* for k >= Len(a.f)
Units(a, k) == a.i * Pow(k) + FracUnits(a.f, k)

Clamp(x, lo, hi) == IF x < lo THEN lo ELSE IF x > hi THEN hi ELSE x

\* a call of render() that passed the guard has just been made
Smoothed == call' # call /\ call' # NoCall /\ call'[1].passed

\* C14: on every tick that does not change scaleStep, the new
\* avgFrameDuration is the old one plus
\* clamp(DURATION_DECAY * (delta - old), -2, 2): it moves toward delta, by
\* at most 2 ms, however large or negative delta is.
C14_ClampedAverage ==
  [][(Smoothed /\ scaleStep' = scaleStep)
     => LET k == Len(avgFrameDuration.f) + 1
            old == Units(avgFrameDuration, k)
            new == Units(avgFrameDuration', k)
            delta == (lastTick' - lastTick) * Pow(k)
            most == MAX_AVG_CHANGE_MS * Pow(k)
        IN /\ Len(avgFrameDuration'.f) <= k
           /\ DURATION_DECAY_INV * (new - old)
                = Clamp(delta - old, -DURATION_DECAY_INV * most,
                        DURATION_DECAY_INV * most)
           /\ new - old <= most /\ old - new <= most
           /\ delta > old => (new > old /\ new <= delta)
           /\ delta < old => (new < old /\ new >= delta)
           /\ delta = old => new = old]_vars

\* frames older than the clock have pulled the average below zero, 2 ms at
\* a time
C14_Witness ==
  /\ call # NoCall /\ call[1].passed /\ ~stepChanged
  /\ call[1].delta < 0
  /\ avgFrameDuration = Real(-DURATION_DECAY_INV * MAX_AVG_CHANGE_MS)

\* the same, for a frame close enough to the average not to be clamped
C14_WitnessUnclamped ==
  /\ call # NoCall /\ call[1].passed /\ ~stepChanged
  /\ Len(avgFrameDuration.f) > 1

\* ---- the selector
\* C15: one evaluation of the selector raises scaleStep by exactly one iff
\* avg > HIGH and scaleStep < lastStep, lowers it by exactly one iff that
\* does not hold and avg < LOW and scaleStep > 0, and otherwise leaves it;
\* avg is the average the tick has just smoothed.  (Of the steps of
\* SpecCtl, those that set ticked and leave lastStep and stream are ticks,
\* and all pass the guard.)
C15_OneStepPerEvaluation ==
  [][(ticked' /\ lastStep' = lastStep /\ stream' = stream
      /\ threeRenderer.alive /\ ~isPresenting)
     => LET avg == SmoothedDuration(avgFrameDuration, lastTick' - lastTick)
            up == RealGt(avg, HIGH_FRAME_DURATION_MS) /\ scaleStep < lastStep
            down == /\ ~up
                    /\ RealLt(avg, LOW_FRAME_DURATION_MS)
                    /\ scaleStep > 0
        IN /\ scaleStep' = scaleStep + 1 <=> up
           /\ scaleStep' = scaleStep - 1 <=> down
           /\ scaleStep' = scaleStep <=> (~up /\ ~down)]_vars

\* a stream of short frames has just lowered the step by one
C15_Witness ==
  /\ stepChanged /\ stream # NoStream
  /\ scaleStep = streamStart.scaleStep - 1
  /\ avgFrameDuration = Real(MidFrameDuration)

\* ---- the frame timer
\* render() has just been called
Called == call' # call /\ call' # NoCall

\* C16 (as claimed): after every invocation of the render callback with
\* timestamp t, lastTick is t and the delta the invocation used is t minus
\* the previous lastTick.
C16_LastTickIsTimestamp ==
  [][Called
     => /\ lastTick' = call'[1].t
        /\ call'[1].delta = call'[1].t - lastTick]_vars

\* C16 (amended): after every invocation of the render callback with
\* timestamp t and no XR frame, lastTick is t and the delta the invocation
\* used is t minus the previous lastTick; the first delta is measured from
\* the timestamp taken at construction.  An invocation with an XR frame
\* leaves lastTick as it was.
C16_LastTickIsTimestampUnlessXR ==
  [][Called
     => IF call'[1].xr THEN lastTick' = lastTick
        ELSE /\ lastTick' = call'[1].t
             /\ call'[1].delta = call'[1].t - lastTick
             /\ ~ticked => call'[1].delta = call'[1].t - StartTime]_vars

\* a frame that did not pass the guard has moved lastTick, after XR frames
\* that did not
C16_Witness ==
  /\ call # NoCall /\ ~call[1].xr /\ ~call[1].passed
  /\ call[1].n > 1 /\ ~stepChanged
  /\ lastTick = call[1].t /\ call[1].delta = call[1].t - StartTime

\* ---- the guard of render()
\* C17: a render tick that arrives while the Renderer cannot render (no
\* WebGL renderer, or after dispose) or while AR is presenting leaves
\* avgFrameDuration, scaleStep, the Renderer's width, height and dpr, and
\* every scene's dirty flag and renderCount as they were.
C17_BlockedTickChangesNothing ==
  [][(Called /\ ~call'[1].xr /\ (~threeRenderer.alive \/ isPresenting))
     => /\ UNCHANGED <<avgFrameDuration, scaleStep, width, height, dpr>>
        /\ \A s \in Scenes :
             /\ scene'[s].isDirty = scene[s].isDirty
             /\ scene'[s].renderCount = scene[s].renderCount
        /\ call'[1].drawn = <<>>]_vars

\* a frame has arrived after dispose, with a dirty scene registered and the
\* page zoomed: it moved lastTick and nothing else
C17_Witness ==
  /\ call # NoCall /\ ~call[1].xr /\ ~call[1].passed
  /\ ~threeRenderer.alive /\ ticked
  /\ lastTick = call[1].t /\ lastTick # StartTime
  /\ envDpr # dpr
  /\ \E s \in SeqToSet(scenes) : scene[s].isDirty

\* the same during an AR session
C17_WitnessPresenting ==
  /\ call # NoCall /\ ~call[1].xr /\ ~call[1].passed
  /\ threeRenderer.alive /\ isPresenting
  /\ lastTick = call[1].t /\ lastTick # StartTime
  /\ envDpr # dpr
  /\ \E s \in SeqToSet(scenes) : scene[s].isDirty

\* ---- the resizer
\* the CSS length css is `${w / SCALE_STEPS[step]}px`
IsScaled(css, w, step) ==
  /\ css[2] > 0
  /\ css[1] * SCALE_STEPS[step + 1] = css[2] * w * 100

\* the sizes the resizer writes
WrittenSizes ==
  <<threeRenderer.size, canvas3D.styleWidth, canvas3D.styleHeight,
    [s \in Scenes |-> <<scene[s].canvasWidth, scene[s].canvasHeight,
                        scene[s].styleWidth, scene[s].styleHeight>>]>>

\* C18: in every tick in which scaleStep changes, every registered scene is
\* marked dirty and the shared canvas and every scene canvas get the CSS size
\* (width / new scaleFactor, height / new scaleFactor); in a tick in which
\* neither scaleStep, the maximum scene size nor the device pixel ratio
\* changes, the resizer marks no scene dirty and writes no size.
C18_ResizerOnStepChange ==
  [][(Called /\ call'[1].passed)
     => /\ scaleStep' # scaleStep
           => /\ call'[1].dirty = SeqToSet(scenes')
              /\ IsScaled(canvas3D'.styleWidth, width', scaleStep')
              /\ IsScaled(canvas3D'.styleHeight, height', scaleStep')
              /\ \A s \in SeqToSet(scenes') :
                   /\ IsScaled(scene'[s].styleWidth, width', scaleStep')
                   /\ IsScaled(scene'[s].styleHeight, height', scaleStep')
        /\ (scaleStep' = scaleStep /\ width' = width /\ height' = height
            /\ dpr' = dpr)
           => /\ call'[1].dirty = call'[1].dirtyIn
              /\ WrittenSizes' = WrittenSizes]_vars

\* the step has just changed with two scenes registered, one of them clean
\* and not due to be drawn before the tick
C18_Witness ==
  /\ call # NoCall /\ call[1].passed /\ stepChanged
  /\ Len(scenes) = 2 /\ scaleStep > 0 /\ width > 0
  /\ call[1].dirtyIn # SeqToSet(scenes)
  /\ call[1].dirty = SeqToSet(scenes)

\* a tick has left the sizes alone although a scene was dirty
C18_WitnessQuiet ==
  /\ call # NoCall /\ call[1].passed /\ ~stepChanged
  /\ Len(scenes) = 2 /\ width > 0
  /\ call[1].dirtyIn # {} /\ call[1].dirtyIn # SeqToSet(scenes)
  /\ call[1].dirty = call[1].dirtyIn

\* ---- the viewport
\* Math.ceil(num / den) and Math.floor(num / den)
CeilDiv(num, den) == -((-num) \div den)
FloorDiv(num, den) == num \div den

\* x is Math.min(a, b)
IsMin(x, a, b) == x <= a /\ x <= b /\ x \in {a, b}

\* the physical size of the shared canvas: floor(renderer size * dpr)
PhysicalWidth == FloorDiv(width * dpr, 2)
PhysicalHeight == FloorDiv(height * dpr, 2)

\* the scale factor times the device pixel ratio, in 200ths
ScaleTimesDpr == SCALE_STEPS[scaleStep + 1] * dpr

\* C19: for every scene drawn in a tick, the viewport width and height given
\* to the WebGL renderer are min(ceil(scene size * scaleFactor * dpr), the
\* physical size of the shared canvas), so the region drawn never exceeds
\* the shared canvas.
C19_ViewportWithinCanvas ==
  [][(Called /\ call'[1].passed)
     => \A k \in 1..Len(call'[1].drawn) :
          LET e == call'[1].drawn[k]
          IN ~e.external
             => /\ IsMin(e.width,
                         CeilDiv(scene'[e.scene].width * ScaleTimesDpr', 200),
                         PhysicalWidth')
                /\ IsMin(e.height,
                         CeilDiv(scene'[e.scene].height * ScaleTimesDpr', 200),
                         PhysicalHeight')
                /\ e.width <= PhysicalWidth'
                /\ e.height <= PhysicalHeight']_vars

\* a scene was drawn whose ceil exceeds the shared canvas: the canvas wins
C19_Witness ==
  /\ call # NoCall /\ call[1].passed /\ call[1].t = lastTick
  /\ \E k \in 1..Len(call[1].drawn) :
       /\ call[1].drawn[k].width = PhysicalWidth
       /\ CeilDiv(scene[call[1].drawn[k].scene].width * ScaleTimesDpr, 200)
            > PhysicalWidth

\* two scenes were drawn in one tick at reduced scale, one of them with a
\* width rounded up, below the width of the shared canvas
C19_WitnessRounded ==
  /\ call # NoCall /\ call[1].passed /\ call[1].t = lastTick
  /\ scaleStep > 0
  /\ Len(call[1].drawn) = 2
  /\ \E k \in 1..Len(call[1].drawn) :
       /\ call[1].drawn[k].width < PhysicalWidth
       /\ call[1].drawn[k].width * 200
            > scene[call[1].drawn[k].scene].width * ScaleTimesDpr

\* ---- the animation loop
\* C20: after any sequence of registerScene and unregisterScene calls on a
\* Renderer that can render, the render callback is scheduled if and only if
\* at least one scene is registered.
C20_LoopIffScenes ==
  threeRenderer.alive => (threeRenderer.animationLoop <=> scenes # <<>>)

\* both scenes were registered and unregistered again, frames were drawn in
\* between, and the loop is cancelled
C20_Witness ==
  /\ threeRenderer.alive /\ ~threeRenderer.animationLoop
  /\ scenes = <<>>
  /\ call # NoCall /\ call[1].passed /\ Len(call[1].drawn) = 2

\* one of two scenes was unregistered and the loop is still scheduled
C20_WitnessStillScheduled ==
  /\ threeRenderer.alive /\ threeRenderer.animationLoop
  /\ Len(scenes) = 1
  /\ call # NoCall /\ call[1].passed /\ Len(call[1].drawn) = 2

\* ---- what changes scaleStep
StepKept == UNCHANGED <<scaleStep, avgFrameDuration>>

\* C21: scaleStep is changed only by the selector inside a render tick:
\* registerScene, unregisterScene, the minScale setter, dispose and the
\* scene-helper operations leave scaleStep and avgFrameDuration as they were,
\* and apart from the selector's steps scaleStep only returns to 0, when a
\* new Renderer is constructed.
C21_StepOnlyBySelector ==
  [][/\ \A s \in Scenes : (RegisterScene(s) \/ UnregisterScene(s)) => StepKept
     /\ \A scale \in MinScales : SetMinScale(scale) => StepKept
     /\ (Dispose \/ ForceRender \/ SetWireframe) => StepKept
     /\ \A k \in 1..Len(undos) : CallUndo(k) => StepKept
     /\ scaleStep' # scaleStep
        => IF lastTick' # lastTick
           THEN /\ threeRenderer.alive /\ ~isPresenting
                /\ scaleStep' =
                     SelectStep(SmoothedDuration(avgFrameDuration,
                                                 lastTick' - lastTick),
                                scaleStep, lastStep)
           ELSE ResetSingleton /\ scaleStep' = 0]_vars

\* the Renderer keeps a lowered scale above the new lastStep after the page
\* set minScale, used a helper, connected an element and disposed of it
C21_Witness ==
  /\ scaleStep > lastStep /\ scaleStep > 0
  /\ ~threeRenderer.alive
  /\ scenes # <<>> /\ undos # <<>>
  /\ avgFrameDuration # Real(MidFrameDuration)

\* a Renderer with a lowered scale was replaced, with an element connected
C21_WitnessReset ==
  /\ scaleStep = 0 /\ ~ticked /\ avgFrameDuration = Real(0)
  /\ lastTick > StartTime + (OpsWarmTicks + 1) * SlowDelta
  /\ scenes # <<>> /\ undos # <<>>

\* ---- the canvas selection
\* registered scenes whose element is in view, and those of them the
\* Renderer draws itself
InView == {s \in SeqToSet(scenes) : scene[s].modelIsVisible}
OwnInView == {s \in InView : ~scene[s].externalRenderer}

\* what displayCanvas() returns follows the number of own scenes in view
DisplaysByCount ==
  \A s \in SeqToSet(scenes) :
    displayCanvas(State, s) =
      IF Cardinality(OwnInView) > 1 THEN s ELSE "canvas3D"

\* C22 (as claimed): after each canvas selection in which at least one
\* registered scene is visible, multipleScenesVisible is true iff more than
\* one registered scene that is not externally rendered is visible, and
\* displayCanvas returns the scene's own canvas when it is true and the
\* shared canvas when it is false; when no scene is visible the selection
\* leaves multipleScenesVisible unchanged.
C22_MultipleIffSeveralVisible ==
  [][(Called /\ call'[1].passed)
     => /\ InView # {}
           => /\ multipleScenesVisible' <=> Cardinality(OwnInView) > 1
              /\ DisplaysByCount'
        /\ InView = {}
           => multipleScenesVisible' = multipleScenesVisible]_vars

\* C22 (amended): the same, with "at least one registered scene that is not
\* externally rendered is visible" for the first condition and "no such
\* scene is visible" for the second.
C22_MultipleIffSeveralOwnVisible ==
  [][(Called /\ call'[1].passed)
     => /\ OwnInView # {}
           => /\ multipleScenesVisible' <=> Cardinality(OwnInView) > 1
              /\ DisplaysByCount'
        /\ OwnInView = {}
           => multipleScenesVisible' = multipleScenesVisible]_vars

\* a selection has gone back to the shared canvas after two scenes were in
\* view, with an externally rendered scene in view as well
C22_Witness ==
  /\ call # NoCall /\ call[1].passed /\ call[1].t = lastTick
  /\ ~multipleScenesVisible
  /\ Cardinality(OwnInView) = 1 /\ Cardinality(InView) = 2
  /\ \E s \in OwnInView : scene[s].context /\ canvas3D.parent = s

\* a selection has found two scenes in view
C22_WitnessMultiple ==
  /\ call # NoCall /\ call[1].passed /\ call[1].t = lastTick
  /\ multipleScenesVisible
  /\ Cardinality(OwnInView) = 2
  /\ \A s \in OwnInView : scene[s].show

\* ---- the order of the draw loop
\* the place of x in the sequence q
IndexIn(q, x) == CHOOSE k \in 1..Len(q) : q[k] = x

\* C23: orderedScenes returns every registered scene exactly once, with
\* every non-visible scene before every visible scene and registration
\* order preserved inside each group.
C23_OrderedScenes ==
  LET o == orderedScenes(State)
  IN /\ Len(o) = Len(scenes)
     /\ SeqToSet(o) = SeqToSet(scenes)
     /\ \A i, j \in 1..Len(o) :
          i < j
          => /\ scene[o[i]].modelIsVisible => scene[o[j]].modelIsVisible
             /\ scene[o[i]].modelIsVisible = scene[o[j]].modelIsVisible
                => IndexIn(scenes, o[i]) < IndexIn(scenes, o[j])

\* a tick drew the scene registered second, out of view, before the scene
\* registered first, in view
C23_Witness ==
  /\ call # NoCall /\ call[1].passed /\ call[1].t = lastTick
  /\ Len(scenes) = 2 /\ Len(call[1].drawn) = 2
  /\ scene[scenes[1]].modelIsVisible /\ ~scene[scenes[2]].modelIsVisible
  /\ call[1].drawn[1].scene = scenes[2]
  /\ call[1].drawn[2].scene = scenes[1]
  /\ orderedScenes(State) = <<scenes[2], scenes[1]>>

\* two scenes of one group keep the order of registration, here the
\* reverse of the order of their names
C23_WitnessSameGroup ==
  /\ call # NoCall /\ call[1].passed /\ call[1].t = lastTick
  /\ scenes = <<"b", "a">>
  /\ scene["a"].modelIsVisible /\ scene["b"].modelIsVisible
  /\ Len(call[1].drawn) = 2 /\ call[1].drawn[1].scene = "b"
  /\ orderedScenes(State) = scenes

\* ---- the spacing of step changes
\* C24: between two consecutive ticks that change scaleStep there are at
\* least two ticks that do not: after a step change at tick k the earliest
\* tick that changes scaleStep again is k+3, whatever the deltas are, so
\* scaleStep does not go up and down on adjacent ticks.
C24_TwoQuietTicksBetween ==
  [][(gap' # gap /\ scaleStep' # scaleStep)
     => /\ gap[1].since >= 2
        /\ gap'[1].between >= 2]_vars

\* the step went up at tick k and down again at tick k+3
C24_Witness ==
  /\ gap # NoGap /\ gap[1].since = 0 /\ gap[1].between = 2
  /\ gap[1].n = 4 /\ scaleStep = 0
  /\ avgFrameDuration = Real(MidFrameDuration)

\* ---- the canvases of the scenes
\* x is Math.round(w * dpr), dpr in halves: w * dpr - 1/2 < x <= w * dpr + 1/2
IsRounded(x, w, d) == w * d - 1 < 2 * x /\ 2 * x <= w * d + 1

\* the canvas of s has the size the Renderer has now
CanvasMatches(s) ==
  /\ IsRounded(scene[s].canvasWidth, width, dpr)
  /\ IsRounded(scene[s].canvasHeight, height, dpr)
  /\ IsScaled(scene[s].styleWidth, width, scaleStep)
  /\ IsScaled(scene[s].styleHeight, height, scaleStep)

\* C25: at the end of every render tick that passes the guard, whatever
\* registerScene, unregisterScene, scene size changes, device-pixel-ratio
\* changes and scale-step changes came between the ticks, every registered
\* scene's canvas has backing size round(width * dpr) x round(height * dpr)
\* and CSS size (width / scaleFactor) x (height / scaleFactor), for the
\* Renderer's width, height, dpr and scaleFactor at that moment.
C25_CanvasesMatchRenderer ==
  [][TickPassed
     => /\ IsLargest(width', RegisteredWidths')
        /\ IsLargest(height', RegisteredHeights')
        /\ dpr' = envDpr
        /\ \A s \in SeqToSet(scenes') : CanvasMatches(s)']_vars

\* a tick has lowered the scale with two scenes of different sizes
\* registered and the page zoomed
C25_Witness ==
  /\ stepChanged /\ scaleStep > 0
  /\ TwoSizes /\ dpr # InitialDpr /\ dpr = envDpr
  /\ IsLargest(width, RegisteredWidths)
  /\ IsLargest(height, RegisteredHeights)
  /\ \A s \in SeqToSet(scenes) : CanvasMatches(s) /\ ~scene[s].isDirty
  /\ \E s \in SeqToSet(scenes) : scene[s].styleWidth[2] > 1

\* ---- the draw loop
\* e, an entry of the draw log, is a scene out of view drawn by the Renderer
\* onto the shared canvas and not copied from it
HiddenOnShared(e) ==
  ~e.external /\ ~e.copied /\ ~scene[e.scene].modelIsVisible

\* the entries of the log the Renderer drew itself
OwnDraws(log) == {k \in 1..Len(log) : ~log[k].external}

\* the last scene the Renderer drew itself is in view
LastOwnDrawInView(log) ==
  \E j \in OwnDraws(log) :
    /\ \A i \in OwnDraws(log) : i <= j
    /\ scene[log[j].scene].modelIsVisible

\* C26 (as claimed): in a tick where a non-visible scene is drawn onto the
\* shared canvas (multipleScenesVisible false), every visible registered
\* scene is marked dirty and is processed later in the same tick, so the
\* last scene drawn to the shared canvas in that tick is a visible one and
\* every scene drawn in the tick ends it with isDirty = false.
C26_VisibleDrawnLast ==
  [][(Called /\ call'[1].passed)
     => LET log == call'[1].drawn
        IN \A k \in 1..Len(log) :
             HiddenOnShared(log[k])
             => /\ \A v \in InView :
                     \E j \in (k + 1)..Len(log) : log[j].scene = v
                /\ LastOwnDrawInView(log)
                /\ \A j \in OwnDraws(log) : ~scene'[log[j].scene].isDirty]_vars

\* C26 (amended): the same, where the last scene drawn to the shared canvas
\* is a visible one when a visible scene that is not externally rendered is
\* registered.
C26_VisibleDrawnLastIfAny ==
  [][(Called /\ call'[1].passed)
     => LET log == call'[1].drawn
        IN \A k \in 1..Len(log) :
             HiddenOnShared(log[k])
             => /\ \A v \in InView :
                     \E j \in (k + 1)..Len(log) : log[j].scene = v
                /\ OwnInView # {} => LastOwnDrawInView(log)
                /\ \A j \in OwnDraws(log) : ~scene'[log[j].scene].isDirty]_vars

\* a scene out of view was drawn first and the scene in view, clean when the
\* loop began, after it
C26_Witness ==
  /\ call # NoCall /\ call[1].passed /\ call[1].t = lastTick
  /\ Len(call[1].drawn) = 2 /\ Cardinality(call[1].dirty) = 1
  /\ HiddenOnShared(call[1].drawn[1])
  /\ call[1].drawn[1].scene \in call[1].dirty
  /\ ~call[1].drawn[2].external
  /\ call[1].drawn[2].scene \in OwnInView
  /\ \A s \in SeqToSet(scenes) : ~scene[s].isDirty
  /\ scene[call[1].drawn[2].scene].renderCount > 1

\* --------------------------------------------------------------------- C27
EventsOf(log, op) == {k \in 1..Len(log.events) : log.events[k].op = op}

CalledOncePerElement(log, op, q) ==
  /\ \A s \in SeqToSet(q) :
        Cardinality({k \in EventsOf(log, op) : log.events[k].scene = s}) = 1
  /\ \A k \in EventsOf(log, op) : log.events[k].scene \in SeqToSet(q)

\* C27: resetSingleton disposes the old renderer, calls disconnectedCallback
\* on each element whose scene was registered with it, installs a freshly
\* constructed Renderer (scaleStep 0, lastStep 3, no scene) as the singleton,
\* and only afterwards calls connectedCallback on exactly those elements;
\* afterwards the same set of scenes is registered with the new singleton and
\* none with the old one.
C27_ResetReregisters ==
  [][resetLog' # resetLog =>
       LET log == resetLog'[1]
       IN /\ ~log.oldAlive
          /\ CalledOncePerElement(log, "disconnectedCallback", scenes)
          /\ CalledOncePerElement(log, "connectedCallback", scenes)
          /\ Cardinality(EventsOf(log, "new Renderer")) = 1
          /\ \A i \in EventsOf(log, "new Renderer") :
                /\ \A k \in EventsOf(log, "dispose")
                          \cup EventsOf(log, "disconnectedCallback") :
                      k < i /\ log.events[k].on = "old"
                /\ \A k \in EventsOf(log, "connectedCallback") :
                      i < k /\ log.events[k].on = "new"
          /\ log.madeScaleStep = 0
          /\ log.madeLastStep = DEFAULT_LAST_STEP
          /\ log.madeScenes = <<>>
          /\ scaleStep' = 0
          /\ lastStep' = DEFAULT_LAST_STEP
          /\ threeRenderer'.alive
          /\ SeqToSet(scenes') = SeqToSet(scenes)
          /\ log.oldScenes = <<>>]_vars

\* Two scenes are re-registered by a reset of a renderer that had left step 0.
C27_Witness ==
  /\ resetLog # NoResetLog
  /\ resetLog[1].n > 0
  /\ resetLog[1].wasScaleStep > 0
  /\ resetLog[1].wasLastStep # DEFAULT_LAST_STEP
  /\ Len(resetLog[1].events) = 6
  /\ Len(scenes) = 2
  /\ scaleStep = 0

\* --------------------------------------------------------------------- C28
UndoLeft(s) == \E k \in 1..Len(undos) : undos[k].fn.scene = s

IsUndoCall(k) ==
  /\ k \in 1..Len(undos)
  /\ undos' = [j \in 1..(Len(undos) - 1) |->
                 IF j < k THEN undos[j] ELSE undos[j + 1]]

Processed == report # NoReport /\ "errors" \in DOMAIN report

OriginalErrors == OfSeverity(report.issues.messages, 0)

OriginalCount(code, pointer) ==
  Cardinality({k \in 1..Len(OriginalErrors) :
                 /\ OriginalErrors[k].code = code
                 /\ OriginalErrors[k].pointer = pointer})

MessagesFor(code, pointer) ==
  {k \in 1..Len(report.errors) :
     report.errors[k].code = code /\ report.errors[k].pointer = pointer}

\* C29 (as claimed): after setReport, for each aggregated code and each
\* pointer that has errors of that code, report.errors holds exactly one
\* message for the code and pointer, and it carries the number of original
\* errors with them; the errors of every other code are kept unchanged and in
\* their original order.
C29_OneMessagePerPointer ==
  Processed =>
    /\ \A code \in SeqToSet(CODES), pointer \in IssuePointers :
          OriginalCount(code, pointer) > 0 =>
            /\ Cardinality(MessagesFor(code, pointer)) = 1
            /\ \A k \in MessagesFor(code, pointer) :
                  report.errors[k].message =
                    ReplaceCount(CodeMessage(code),
                                 OriginalCount(code, pointer))
    /\ SelectSeq(report.errors, LAMBDA msg : ~IsAggregated(msg.code))
         = SelectSeq(OriginalErrors, LAMBDA msg : ~IsAggregated(msg.code))

====
